---------------------------- MODULE Spec2Model ----------------------------
(***************************************************************************)
(* Gold-price tracker: multi-source acquisition (fetch-all, collect-daily) *)
(* and the drawdown / recovery detector (analyze-drawdowns).               *)
(*                                                                         *)
(* Numbers are integers.  The two non-integer program constants are kept   *)
(* as exact fractions: 31.1035 = 62207/2000 and 37.5 = 75/2.  The price    *)
(* domains below are chosen so that every division of the model is exact   *)
(* and stays inside 32-bit integers.                                       *)
(***************************************************************************)
EXTENDS Integers, Sequences, FiniteSets, TLC

\* ------------------------------------------------------------------------
\* Program constants
\* ------------------------------------------------------------------------

\* 31.1035 = TROY_OUNCE_NUM / TROY_OUNCE_DEN
TROY_OUNCE_NUM == 62207
TROY_OUNCE_DEN == 2000
\* 37.5 = TAEL_NUM / TAEL_DEN
TAEL_NUM == 75
TAEL_DEN == 2
DEFAULT_HISTORICAL_EXCHANGE_RATE == 25500
\* lookahead window of the peak test
LOOKAHEAD == 20
\* default drawdown threshold (percent)
DEFAULT_MIN_DRAWDOWN == 10

\* ------------------------------------------------------------------------
\* Input domains of the model
\* ------------------------------------------------------------------------

\* USD per troy ounce an international adapter may report: 0 is a falsy price,
\* the other is the smallest price whose per-gram value is a whole number
IntlPrices == {0, TROY_OUNCE_NUM}
\* units per 1 USD the exchange-rate API reports
ApiRate == [VND |-> 25500, CNY |-> 7, RUB |-> 90, INR |-> 83]
\* SJC sell prices (VND per tael): equal to the benchmark, and 1% above it
SjcSellPrices == {1912500000, 1931625000}

\* ------------------------------------------------------------------------
\* FetchResult<T>  (src/src/types.ts)
\* ------------------------------------------------------------------------

Ok(d) == [ok |-> TRUE, data |-> d]
Err(e) == [ok |-> FALSE, error |-> e]
IsOk(r) == "ok" \in DOMAIN r /\ r.ok

\* an exception on its way up the call stack: fetch() rejecting, a body that
\* does not parse
Thrown(e) == [kind |-> "thrown", error |-> e]

\* an adapter without its try / catch
rethrow(o) == o

\* try { ... } catch (e) { return { ok: false, error: String(e) } }
catchAtBoundary(o) ==
  IF "kind" \in DOMAIN o /\ o.kind = "thrown" THEN Err(o.error) ELSE o

\* a value that is not there (undefined / null)
Undefined == [kind |-> "undefined"]
Num(n) == [kind |-> "number", value |-> n]
Infinity == [kind |-> "Infinity"]
NaN == [kind |-> "NaN"]
Null == [kind |-> "null"]

\* JSON.stringify of a number: NaN and Infinity are written as null
jsonNumber(x) == IF x = NaN \/ x = Infinity THEN Null ELSE x

\* an optional numeric field of a GoldPrice is truthy when present and non-zero
Truthy(q, f) == f \in DOMAIN q /\ q[f] # 0
Field(q, f) == IF f \in DOMAIN q THEN q[f] ELSE 0

\* x / 31.1035
PerOunceToGram(x) == (x \div TROY_OUNCE_NUM) * TROY_OUNCE_DEN
\* v * 37.5 and v / 37.5
TimesTael(v) == (v \div TAEL_DEN) * TAEL_NUM
DivTael(v) == (v \div TAEL_NUM) * TAEL_DEN

\* ------------------------------------------------------------------------
\* Quotes the adapters build
\* ------------------------------------------------------------------------

IntlQuote(src, x) ==
  [source |-> src, country |-> "International", currency |-> "USD",
   pricePerOunce |-> x, pricePerGram |-> PerOunceToGram(x)]

RegionalQuote(src, ctry, cur, perOunce) ==
  [source |-> src, country |-> ctry, currency |-> cur,
   pricePerOunce |-> perOunce, pricePerGram |-> PerOunceToGram(perOunce)]

SjcQuote(kind, sell) ==
  [source |-> kind, country |-> "Vietnam", currency |-> "VND",
   pricePerTael |-> sell, buyPrice |-> sell - 1500000, sellPrice |-> sell]

VnGramQuote(src, g) ==
  [source |-> src, country |-> "Vietnam", currency |-> "VND",
   pricePerGram |-> g, pricePerTael |-> TimesTael(g)]

IndiaQuote(src, g) ==
  [source |-> src, country |-> "India", currency |-> "INR", pricePerGram |-> g]

\* ------------------------------------------------------------------------
\* Pure helpers of the orchestrator (fetch-all)
\* ------------------------------------------------------------------------

Min(a, b) == IF a < b THEN a ELSE b

\* rates[c], 0 when the table has no entry (undefined is falsy)
RateOf(rates, c) == IF c \in DOMAIN rates THEN rates[c] ELSE 0

\* fetchAllRates: { USD: 1 } plus every requested currency the API reports
fetchAllRates(json) ==
  [c \in {"USD"} \cup {k \in {"VND", "CNY", "RUB", "INR"} :
                         k \in DOMAIN json /\ json[k] # 0}
     |-> IF c = "USD" THEN 1 ELSE json[c]]

\* index of the first element of acc with the given source, 0 when none
IndexOfSource(acc, src) ==
  IF \E i \in 1..Len(acc) : acc[i].source = src
    THEN CHOOSE i \in 1..Len(acc) :
           acc[i].source = src /\ \A j \in 1..(i - 1) : acc[j].source # src
    ELSE 0

DedupeStep(acc, p) ==
  LET i == IndexOfSource(acc, p.source) IN
    IF i = 0 THEN Append(acc, p)
    ELSE IF Truthy(p, "sellPrice") /\ ~Truthy(acc[i], "sellPrice")
      THEN [acc EXCEPT ![i] = p]
      ELSE acc

RECURSIVE DedupeFrom(_, _, _)
DedupeFrom(prices, k, acc) ==
  IF k > Len(prices) THEN acc
  ELSE DedupeFrom(prices, k + 1, DedupeStep(acc, prices[k]))

dedupeBySource(prices) == DedupeFrom(prices, 1, <<>>)

\* key of the Vietnam de-duplication: sellPrice || pricePerTael || 0
VnKey(p) ==
  IF Truthy(p, "sellPrice") THEN p.sellPrice
  ELSE IF Truthy(p, "pricePerTael") THEN p.pricePerTael
  ELSE 0

RECURSIVE UniqueByKeyFrom(_, _, _)
UniqueByKeyFrom(prices, k, acc) ==
  IF k > Len(prices) THEN acc
  ELSE UniqueByKeyFrom(prices, k + 1,
         IF \E i \in 1..Len(acc) : VnKey(acc[i]) = VnKey(prices[k])
           THEN acc ELSE Append(acc, prices[k]))

processVietnam(data) == UniqueByKeyFrom(data, 1, <<>>)

\* sources whose lower-cased name contains 'gold 999'
Gold999Sources == {"IBJA-gold 999"}
IsGold999(p) == p.source \in Gold999Sources

processIndia(data) ==
  LET kept == SelectSeq(data, IsGold999) IN SubSeq(kept, 1, Min(1, Len(kept)))

\* sources whose lower-cased name contains 'sjc'
SjcSources == {"SJC Mieng", "SJC Nhan"}

\* a derivation that lets the sell price override a per-gram price that is there
derivePricePerGramSellFirst(p) ==
  IF Truthy(p, "sellPrice") THEN DivTael(p.sellPrice)
  ELSE IF Truthy(p, "pricePerGram") THEN p.pricePerGram
  ELSE IF Truthy(p, "pricePerTael") THEN DivTael(p.pricePerTael)
  ELSE 0

\* lines 56-66: p.pricePerGram || 0, else from the tael price, else from the sell price
derivePricePerGram(p) ==
  LET g0 == Field(p, "pricePerGram")
      g1 == IF g0 = 0 /\ Truthy(p, "pricePerTael") THEN DivTael(p.pricePerTael) ELSE g0
  IN IF g1 = 0 /\ Truthy(p, "sellPrice") THEN DivTael(p.sellPrice) ELSE g1

\* lines 68-84: pass VND through, multiply USD, two hops for a listed currency,
\* the untouched number for a currency the table lacks
convertToVND(p, pricePerGram, rates) ==
  LET vndRate == IF RateOf(rates, "VND") # 0 THEN RateOf(rates, "VND") ELSE 1
      currencyRate == RateOf(rates, p.currency)
  IN IF p.currency = "VND" THEN pricePerGram
     ELSE IF p.currency = "USD" THEN pricePerGram * vndRate
     ELSE IF currencyRate # 0 THEN (pricePerGram \div currencyRate) * vndRate
     ELSE pricePerGram

\* a normalizer that copies the quote's own tael price when it has one
normalizeOneOwnTael(p, rates) ==
  LET pricePerGram == derivePricePerGram(p)
      vndPerGram == convertToVND(p, pricePerGram, rates)
  IN [source |-> p.source, country |-> p.country, originalCurrency |-> p.currency,
      originalPricePerGram |-> pricePerGram, vndPerGram |-> vndPerGram,
      vndPerTael |-> IF Truthy(p, "pricePerTael") THEN p.pricePerTael
                     ELSE TimesTael(vndPerGram)]

normalizeOne(p, rates) ==
  LET pricePerGram == derivePricePerGram(p)
      vndPerGram == convertToVND(p, pricePerGram, rates)
  IN [source |-> p.source, country |-> p.country, originalCurrency |-> p.currency,
      originalPricePerGram |-> pricePerGram, vndPerGram |-> vndPerGram,
      vndPerTael |-> TimesTael(vndPerGram)]

normalizeToVND(prices, rates) ==
  [i \in 1..Len(prices) |-> normalizeOne(prices[i], rates)]

\* diff / base * 100 for base >= 0: NaN or Infinity as JavaScript computes it
\* for base = 0, else the exact quotient: Num(n) when it is a whole number,
\* and the number num / den in lowest terms when it is not
Percent(diff, base) ==
  IF base = 0 THEN (IF diff = 0 THEN NaN ELSE Infinity)
  ELSE LET RECURSIVE gcd(_, _)
           gcd(a, b) == IF b = 0 THEN a ELSE gcd(b, a % b)
           abs(a) == IF a < 0 THEN -a ELSE a
           g == gcd(abs(diff), base)
           n == (diff \div g) * 100
           d == base \div g
           h == gcd(abs(n), d)
       IN IF d = h THEN Num(n \div h)
          ELSE [kind |-> "number", num |-> n \div h, den |-> d \div h]

\* usdVndRate is Num(r), or Undefined when the table has no VND entry
calculateVietnamPremium(sjcPriceVND, xauusdPrice, usdVndRate) ==
  IF usdVndRate.kind # "number"
    THEN [country |-> "Vietnam", premium |-> NaN, benchmark |-> NaN,
          localPrice |-> Num(sjcPriceVND)]
    ELSE LET internationalPerGram == PerOunceToGram(xauusdPrice) * usdVndRate.value
             internationalPerTael == TimesTael(internationalPerGram)
         IN [country |-> "Vietnam",
             premium |-> Percent(sjcPriceVND - internationalPerTael, internationalPerTael),
             benchmark |-> Num(internationalPerTael),
             localPrice |-> Num(sjcPriceVND)]

\* Promise.all over a market's adapters, successes concatenated in call order
RECURSIVE ConcatData(_, _)
ConcatData(results, k) ==
  IF k > Len(results) THEN <<>>
  ELSE (IF IsOk(results[k]) THEN results[k].data ELSE <<>>) \o ConcatData(results, k + 1)

RECURSIVE CollectErrors(_, _)
CollectErrors(results, k) ==
  IF k > Len(results) THEN <<>>
  ELSE (IF IsOk(results[k]) THEN <<>> ELSE <<results[k].error>>)
       \o CollectErrors(results, k + 1)

\* fetchAll of the Vietnam and India sources: ok when any adapter delivered
mergeAll(results) ==
  LET all == ConcatData(results, 1) IN
    IF Len(all) = 0 THEN Err(CollectErrors(results, 1)) ELSE Ok(all)


\* ------------------------------------------------------------------------
\* State
\* ------------------------------------------------------------------------

VARIABLES
  cmd,            \* the program that runs: "fetch-all", "collect-daily", ...
  pc,             \* where its main() stands (the await it is suspended at);
                  \* "exited" once it has returned or called process.exit(),
                  \* "threw" once it has rejected and the error is printed
  twelveKey,      \* process.env.TWELVEDATA_API_KEY is set
  goldApiKey,     \* process.env.GOLDAPI_KEY is set
  ratesStatus,    \* fetchAllRates(): "idle", "pending", "done"
  ratesResult,    \* its FetchResult
  status,         \* per market fetchAll(): "idle", "pending", "done"
  awaiting,       \* per fallback chain: the adapter whose reply is outstanding
  tried,          \* per fallback chain: <<[adapter, result]>> in invocation order
  result,         \* per market: the FetchResult its fetchAll() returned
  xauusdPrice,    \* fetch-all: the benchmark handed to the China/Russia fallbacks
  raw,            \* fetch-all: per market quotes of the aggregate
  errors,         \* fetch-all: the warnings list
  normalized,     \* fetch-all: the normalized quotes
  vietnamPremium, \* fetch-all: the premium block of the aggregate
  exitCode,       \* -1 while running, then the process exit status
  latestJson,     \* data/latest.json: Undefined, or the artifact written
  snapshots,      \* data/vietnam-history.json: the stored snapshots
  today,          \* collect-daily: the current date (Asia/Ho_Chi_Minh)
  historicalRateEnv, \* process.env.HISTORICAL_EXCHANGE_RATE: Undefined or Num(n)
  existing,       \* the store as loadExisting() read it, edited in memory
  data,           \* analyze-drawdowns: usdPerOunce of the series, point k at data[k + 1]
  minDrawdownPct, \* analyze-drawdowns: the threshold
  i,              \* findDrawdowns: the scan index (0-based, as in the source)
  drawdowns,      \* findDrawdowns: the events emitted so far
  scan,           \* findDrawdowns: "loop" while scanning, "returned" after
  visited,        \* history: the scan index at the start of each iteration
  call,           \* a library function applied on its own: its name and arguments
  ret,            \* what that call returned
  buildStep,      \* scheduled build: the script that runs next (1-based)
  files,          \* scheduled build: per artifact "absent", "old" or "new"
  buildExit       \* scheduled build: -1 while running, then the exit status

acqVars == <<cmd, pc, twelveKey, goldApiKey, ratesStatus, ratesResult, status,
          awaiting, tried, result, xauusdPrice, raw, errors, normalized,
          vietnamPremium, exitCode, latestJson, snapshots, today, historicalRateEnv, existing>>

ddVars == <<data, minDrawdownPct, i, drawdowns, scan, visited>>

fnVars == <<call, ret>>

buildVars == <<buildStep, files, buildExit>>

vars == <<acqVars, ddVars, fnVars, buildVars>>

Markets == {"vietnam", "international", "china", "russia", "india"}
Dependents == {"vietnam", "china", "russia", "india"}
Chains == {"international", "china", "russia"}
Regional == {"china", "russia"}

\* the ordered adapter list behind each fallback chain
AdapterList(m) ==
  CASE m = "international" -> <<"TwelveData", "FreeGoldAPI", "GoldAPI.io">>
    [] m = "china" -> <<"GoldPrice.org-CNY", "Calculated (XAUUSD x USD/CNY)">>
    [] m = "russia" -> <<"GoldPrice.org-RUB", "Calculated (XAUUSD x USD/RUB)">>

MarketLabel(m) ==
  CASE m = "vietnam" -> "Vietnam"
    [] m = "international" -> "International"
    [] m = "china" -> "China"
    [] m = "russia" -> "Russia"
    [] m = "india" -> "India"

RegionalCurrency(m) == IF m = "china" THEN "CNY" ELSE "RUB"

\* ------------------------------------------------------------------------
\* What each adapter's single attempt can come back with
\* ------------------------------------------------------------------------

RatesOutcomes ==
  {Err("HTTP 500"), Thrown("TypeError: fetch failed"),
   Ok(fetchAllRates(ApiRate)),
   Ok(fetchAllRates([CNY |-> 7, RUB |-> 90, INR |-> 83]))}

\* a fetchCurrent that calls the API whether or not its key is set
TwelveOutcomesUnguarded ==
  {Thrown("TypeError: fetch failed")}
    \cup {Ok(<<IntlQuote("TwelveData", x)>>) : x \in IntlPrices}

\* twelvedata fetchCurrent
TwelveOutcomes ==
  IF ~twelveKey THEN {Err("TWELVEDATA_API_KEY not set")}
  ELSE {Thrown("TypeError: fetch failed")}
         \cup {Ok(<<IntlQuote("TwelveData", x)>>) : x \in IntlPrices}

\* fetchXAUUSD
FreeGoldOutcomes ==
  {Err("No price data in response")}
    \cup {Ok(<<IntlQuote("FreeGoldAPI (yahoo_finance)", x)>>) : x \in IntlPrices}

\* fetchFromGoldAPI
GoldApiOutcomes ==
  IF ~goldApiKey THEN {Err("GOLDAPI_KEY not set")}
  ELSE {Err("HTTP 403"), Ok(<<IntlQuote("GoldAPI.io", TROY_OUNCE_NUM)>>)}

\* fetchFromGoldPriceOrg of the China / Russia source
RegionalPrimaryOutcomes(m) ==
  {Thrown("TypeError: fetch failed"),
   Ok(<<RegionalQuote(AdapterList(m)[1], MarketLabel(m), RegionalCurrency(m),
                      TROY_OUNCE_NUM * ApiRate[RegionalCurrency(m)])>>)}

\* fetchCalculated(xauusdPrice) of the China / Russia source
RegionalCalculatedOutcomes(m, xau) ==
  {Thrown("TypeError: fetch failed"), Err("HTTP 500"),
   Err(RegionalCurrency(m) \o " rate not found"),
   Ok(<<RegionalQuote(AdapterList(m)[2], MarketLabel(m), RegionalCurrency(m),
                      xau * ApiRate[RegionalCurrency(m)])>>)}

\* fetchFromGiaVang: the SJC rows of the Mieng and of the Nhan section
GiaVangOutcomes ==
  {Err("No SJC prices found on giavang.org"), Ok(<<SjcQuote("SJC Nhan", 1931625000)>>),
   Ok(<<SjcQuote("SJC Mieng", 1931625000), SjcQuote("SJC Nhan", 1931625000)>>)}
    \cup {Ok(<<SjcQuote("SJC Mieng", s)>>) : s \in SjcSellPrices}
GoldPriceOrgVnOutcomes ==
  {Err("No Vietnam prices found on goldprice.org"),
   Ok(<<VnGramQuote("GoldPriceOrg-VN", 51000000)>>)}
\* fetchFromGoldPricez keeps a match only when 1000000 < price < 5000000
GoldPricezOutcomes ==
  {Thrown("TimeoutError: The operation timed out"),
   Err("No prices found on goldpricez.com"),
   Ok(<<VnGramQuote("GoldPricez-VN", 2550000)>>)}

MetalsDevOutcomes ==
  {Err("METALS_DEV_KEY not set"), Ok(<<IndiaQuote("Metals.dev", 166000)>>)}
IbjaOutcomes ==
  {Err("No IBJA price data found"),
   Ok(<<IndiaQuote("IBJA-gold 999", 166000), IndiaQuote("IBJA-gold 995", 165170)>>)}
\* fetchFromAIB keeps a match only when 5000 < price < 10000
AibOutcomes ==
  {Thrown("TypeError: fetch failed"), Err("No AIB price data found"),
   Ok(<<IndiaQuote("AIB-24K", 8300)>>)}


\* ------------------------------------------------------------------------
\* Fallback chains
\* ------------------------------------------------------------------------

Invoke(a) == [kind |-> "invoke", adapter |-> a]
Return(r) == [kind |-> "return", value |-> r]

\* a runner that goes on to GoldAPI.io although FreeGoldAPI has delivered
internationalStepTryAll(log, haveGoldApiKey) ==
  CASE Len(log) = 0 -> Invoke("TwelveData")
    [] Len(log) = 1 ->
         IF IsOk(log[1].result) THEN Return(log[1].result) ELSE Invoke("FreeGoldAPI")
    [] Len(log) = 2 ->
         IF haveGoldApiKey THEN Invoke("GoldAPI.io") ELSE Return(log[2].result)
    [] OTHER ->
         IF IsOk(log[3].result) THEN Return(log[3].result) ELSE Return(log[2].result)

\* international fetchAll(): what it does once the adapters in log have replied
internationalStep(log, haveGoldApiKey) ==
  CASE Len(log) = 0 -> Invoke("TwelveData")
    [] Len(log) = 1 ->
         IF IsOk(log[1].result) THEN Return(log[1].result) ELSE Invoke("FreeGoldAPI")
    [] Len(log) = 2 ->
         IF IsOk(log[2].result) THEN Return(log[2].result)
         ELSE IF haveGoldApiKey THEN Invoke("GoldAPI.io")
         ELSE Return(log[2].result)
    [] OTHER ->
         IF IsOk(log[3].result) THEN Return(log[3].result) ELSE Return(log[2].result)

\* China / Russia fetchAll(xauusdPrice)
regionalStep(m, log, xau) ==
  CASE Len(log) = 0 -> Invoke(AdapterList(m)[1])
    [] Len(log) = 1 ->
         IF IsOk(log[1].result) THEN Return(log[1].result)
         ELSE IF xau # 0 THEN Invoke(AdapterList(m)[2])
         ELSE Return(Err(IF m = "china" THEN "Could not fetch China gold price"
                                         ELSE "Could not fetch Russia gold price"))
    [] OTHER -> Return(log[2].result)

chainStep(m, log) ==
  IF m = "international" THEN internationalStep(log, goldApiKey)
  ELSE regionalStep(m, log, xauusdPrice)

\* the adapter of chain m that is outstanding replies with o
ChainReply(m, a, o) ==
  LET log == Append(tried[m], [adapter |-> a, result |-> catchAtBoundary(o)])
      step == chainStep(m, log)
  IN /\ awaiting[m] = a
     /\ tried' = [tried EXCEPT ![m] = log]
     /\ IF step.kind = "invoke"
          THEN /\ awaiting' = [awaiting EXCEPT ![m] = step.adapter]
               /\ UNCHANGED <<status, result>>
          ELSE /\ awaiting' = [awaiting EXCEPT ![m] = "none"]
               /\ status' = [status EXCEPT ![m] = "done"]
               /\ result' = [result EXCEPT ![m] = step.value]

orchestratorVars == <<ddVars, fnVars, buildVars, cmd, pc, twelveKey, goldApiKey, ratesStatus, ratesResult,
                      xauusdPrice, raw, errors, normalized, vietnamPremium,
                      exitCode, latestJson, snapshots, today, historicalRateEnv, existing>>

IntlTwelveDataReply ==
  /\ \E o \in TwelveOutcomes : ChainReply("international", "TwelveData", o)
  /\ UNCHANGED orchestratorVars

IntlFreeGoldReply ==
  /\ \E o \in FreeGoldOutcomes : ChainReply("international", "FreeGoldAPI", o)
  /\ UNCHANGED orchestratorVars

IntlGoldApiReply ==
  /\ \E o \in GoldApiOutcomes : ChainReply("international", "GoldAPI.io", o)
  /\ UNCHANGED orchestratorVars

RegionalPrimaryReply(m) ==
  /\ \E o \in RegionalPrimaryOutcomes(m) : ChainReply(m, AdapterList(m)[1], o)
  /\ UNCHANGED orchestratorVars

RegionalCalculatedReply(m) ==
  /\ \E o \in RegionalCalculatedOutcomes(m, xauusdPrice) :
       ChainReply(m, AdapterList(m)[2], o)
  /\ UNCHANGED orchestratorVars

\* Vietnam fetchAll(): three scrapers at once, merged
VietnamReply ==
  /\ status["vietnam"] = "pending"
  /\ \E g \in GiaVangOutcomes, o \in GoldPriceOrgVnOutcomes, z \in GoldPricezOutcomes :
       result' = [result EXCEPT !["vietnam"] =
         mergeAll(<<catchAtBoundary(g), catchAtBoundary(o), catchAtBoundary(z)>>)]
  /\ status' = [status EXCEPT !["vietnam"] = "done"]
  /\ UNCHANGED <<awaiting, tried>>
  /\ UNCHANGED orchestratorVars

\* India fetchAll(): three sources at once, merged
IndiaReply ==
  /\ status["india"] = "pending"
  /\ \E d \in MetalsDevOutcomes, b \in IbjaOutcomes, a \in AibOutcomes :
       result' = [result EXCEPT !["india"] =
         mergeAll(<<catchAtBoundary(d), catchAtBoundary(b), catchAtBoundary(a)>>)]
  /\ status' = [status EXCEPT !["india"] = "done"]
  /\ UNCHANGED <<awaiting, tried>>
  /\ UNCHANGED orchestratorVars


\* ------------------------------------------------------------------------
\* fetch-all: fetchAllPrices() and main()
\* ------------------------------------------------------------------------

chainVars == <<status, awaiting, tried, result>>

\* main() calls fetchAllPrices(), which calls fetchAllRates() and awaits it
FetchAllStart ==
  /\ cmd = "fetch-all" /\ pc = "start"
  /\ pc' = "rates"
  /\ ratesStatus' = "pending"
  /\ UNCHANGED <<ddVars, fnVars, buildVars, cmd, twelveKey, goldApiKey, ratesResult, xauusdPrice, raw, errors,
                 normalized, vietnamPremium, exitCode, latestJson, snapshots,
                 today, historicalRateEnv, existing>>
  /\ UNCHANGED chainVars

\* the rates arrive: a failure ends the run, a table lets the benchmark fetch start
FetchAllRatesReply ==
  /\ cmd = "fetch-all" /\ pc = "rates" /\ ratesStatus = "pending"
  /\ \E o \in RatesOutcomes :
       /\ ratesResult' = catchAtBoundary(o)
       /\ ratesStatus' = "done"
       /\ IF IsOk(catchAtBoundary(o))
            THEN /\ pc' = "intl"
                 /\ status' = [status EXCEPT !["international"] = "pending"]
                 /\ awaiting' = [awaiting EXCEPT
                      !["international"] = chainStep("international", <<>>).adapter]
                 /\ UNCHANGED exitCode
            ELSE /\ pc' = "exited"
                 /\ exitCode' = 1
                 /\ UNCHANGED <<status, awaiting>>
  /\ UNCHANGED <<ddVars, fnVars, buildVars, cmd, twelveKey, goldApiKey, tried, result, xauusdPrice, raw, errors,
                 normalized, vietnamPremium, latestJson, snapshots, today, historicalRateEnv, existing>>

\* an orchestrator that awaits the rates but not the benchmark
ratesAwaitedOnly == ratesStatus = "done"

\* both awaits of lines 100 and 107 have resumed
prerequisitesAwaited ==
  ratesStatus = "done" /\ status["international"] = "done"

\* data[0]?.pricePerOunce of a successful benchmark, else undefined (falsy: 0)
benchmarkOunce(r) ==
  IF IsOk(r) /\ Len(r.data) > 0 THEN Field(r.data[1], "pricePerOunce") ELSE 0

\* Promise.all([fetchVietnam(), fetchChina(x), fetchRussia(x), fetchIndia()])
StartMarkets ==
  /\ cmd = "fetch-all" /\ pc = "intl"
  /\ prerequisitesAwaited
  /\ xauusdPrice' = benchmarkOunce(result["international"])
  /\ status' = [m \in Markets |-> IF m \in Dependents THEN "pending" ELSE status[m]]
  /\ awaiting' = [m \in Chains |->
                    IF m \in Regional THEN AdapterList(m)[1] ELSE awaiting[m]]
  /\ pc' = "markets"
  /\ UNCHANGED <<ddVars, fnVars, buildVars, cmd, twelveKey, goldApiKey, ratesStatus, ratesResult, tried, result,
                 raw, errors, normalized, vietnamPremium, exitCode, latestJson,
                 snapshots, today, historicalRateEnv, existing>>

dataOf(r) == IF IsOk(r) THEN r.data ELSE <<>>

\* the raw block of the aggregate
aggregateRaw(res) ==
  [vietnam |-> processVietnam(dataOf(res["vietnam"])),
   international |-> dataOf(res["international"]),
   china |-> dedupeBySource(dataOf(res["china"])),
   russia |-> dedupeBySource(dataOf(res["russia"])),
   india |-> processIndia(dataOf(res["india"]))]

warningOf(res, m) ==
  IF IsOk(res[m]) THEN <<>> ELSE <<[market |-> MarketLabel(m), error |-> res[m].error]>>

\* warnings collected as the markets settle: the concurrent ones first
aggregateErrorsAsSettled(res) ==
  warningOf(res, "china") \o warningOf(res, "russia") \o warningOf(res, "india")
    \o warningOf(res, "vietnam") \o warningOf(res, "international")

\* the errors array, in the order the results are processed
aggregateErrors(res) ==
  warningOf(res, "vietnam") \o warningOf(res, "international") \o warningOf(res, "china")
    \o warningOf(res, "russia") \o warningOf(res, "india")

firstSjc(quotes) ==
  LET sjc == SelectSeq(quotes, LAMBDA q : q.source \in SjcSources) IN
    IF Len(sjc) = 0 THEN <<>> ELSE <<sjc[1]>>

\* lines 170-186: the premium block, or undefined
premiumBlock(rw, rates) ==
  LET sjcPrice == firstSjc(rw.vietnam)
      xauusd == rw.international
  IN IF /\ Len(sjcPrice) > 0 /\ Truthy(sjcPrice[1], "sellPrice")
        /\ Len(xauusd) > 0 /\ Truthy(xauusd[1], "pricePerOunce")
       THEN LET premium == calculateVietnamPremium(sjcPrice[1].sellPrice,
                             xauusd[1].pricePerOunce,
                             IF "VND" \in DOMAIN rates THEN Num(rates["VND"]) ELSE Undefined)
            IN [premiumPercent |-> premium.premium,
                benchmarkVND |-> premium.benchmark,
                localPriceVND |-> premium.localPrice]
       ELSE Undefined

\* all four dependents have settled: the rest of fetchAllPrices()
Aggregate ==
  /\ cmd = "fetch-all" /\ pc = "markets"
  /\ \A m \in Dependents : status[m] = "done"
  /\ LET rw == aggregateRaw(result) IN
       /\ raw' = rw
       /\ errors' = aggregateErrors(result)
       /\ normalized' = normalizeToVND(rw.international \o rw.vietnam \o rw.china
                                         \o rw.russia \o rw.india, ratesResult.data)
       /\ vietnamPremium' = premiumBlock(rw, ratesResult.data)
  /\ pc' = "write"
  /\ UNCHANGED <<ddVars, fnVars, buildVars, cmd, twelveKey, goldApiKey, ratesStatus, ratesResult, xauusdPrice,
                 exitCode, latestJson, snapshots, today, historicalRateEnv, existing>>
  /\ UNCHANGED chainVars

\* JSON.stringify(jsonOutput): a property whose value is undefined is left
\* out, and the numbers of the premium block are written as jsonNumber writes
\* them
jsonOutput(norm, rw, rates, premium) ==
  LET head == [normalized |-> norm, raw |-> rw, exchangeRates |-> rates] IN
    IF premium = Undefined THEN head
    ELSE [f \in DOMAIN head \cup {"vietnamPremium"} |->
            IF f = "vietnamPremium"
              THEN [g \in DOMAIN premium |-> jsonNumber(premium[g])]
              ELSE head[f]]

\* main(): print the tables, write data/latest.json, end with status 0
SaveLatest ==
  /\ cmd = "fetch-all" /\ pc = "write"
  /\ \E written \in BOOLEAN :
       IF written
         THEN /\ latestJson' = jsonOutput(normalized, raw, ratesResult.data,
                                          vietnamPremium)
              /\ pc' = "exited"
         ELSE UNCHANGED latestJson /\ pc' = "threw"
  /\ exitCode' = 0
  /\ UNCHANGED <<ddVars, fnVars, buildVars, cmd, twelveKey, goldApiKey, ratesStatus, ratesResult, xauusdPrice,
                 raw, errors, normalized, vietnamPremium, snapshots, today, historicalRateEnv, existing>>
  /\ UNCHANGED chainVars


\* ------------------------------------------------------------------------
\* collect-daily: collectSnapshot() and main()
\* ------------------------------------------------------------------------

\* largest date of the model's calendar
MaxDate == 3
Dates == 1..MaxDate

\* parseFloat(env ?? '') || DEFAULT_HISTORICAL_EXCHANGE_RATE, and the same with
\* parseInt: an unset variable parses to NaN, and NaN and 0 are falsy
historicalRate(env) ==
  IF env = Undefined THEN DEFAULT_HISTORICAL_EXCHANGE_RATE
  ELSE IF env.value = 0 THEN DEFAULT_HISTORICAL_EXCHANGE_RATE
  ELSE env.value

\* a snapshot an earlier run stored for date d
OldSnapshot(d) ==
  [date |-> d,
   international |-> [usdPerOunce |-> TROY_OUNCE_NUM, vndPerTael |-> 1912500000],
   exchangeRate |-> DEFAULT_HISTORICAL_EXCHANGE_RATE,
   premium |-> Num(1),
   sjcMieng |-> [buy |-> 1930125000, sell |-> 1931625000]]

RECURSIVE AscendingFrom(_, _)
\* the dates of D that are >= d, ascending
AscendingFrom(D, d) ==
  IF d > MaxDate THEN <<>>
  ELSE (IF d \in D THEN <<d>> ELSE <<>>) \o AscendingFrom(D, d + 1)

\* Array.prototype.sort by date: stable, ascending. Each element is placed
\* after the last one already sorted whose date is <= its own
sortByDate(seq) ==
  LET RECURSIVE insertByDate(_, _)
      insertByDate(sorted, s) ==
        IF Len(sorted) = 0 THEN <<s>>
        ELSE IF sorted[Len(sorted)].date <= s.date THEN Append(sorted, s)
        ELSE Append(insertByDate(SubSeq(sorted, 1, Len(sorted) - 1), s),
                    sorted[Len(sorted)])
      RECURSIVE sortFrom(_, _)
      sortFrom(k, acc) ==
        IF k > Len(seq) THEN acc ELSE sortFrom(k + 1, insertByDate(acc, seq[k]))
  IN sortFrom(1, <<>>)

\* JSON.stringify(existing): the numbers of each snapshot as jsonNumber
\* writes them
jsonSnapshots(store) ==
  [k \in 1..Len(store) |-> [store[k] EXCEPT !.premium = jsonNumber(@)]]

firstWithSource(quotes, src) ==
  LET hit == SelectSeq(quotes, LAMBDA q : q.source = src) IN
    IF Len(hit) = 0 THEN <<>> ELSE <<hit[1]>>

\* collectSnapshot() once both fetches have settled: null (Undefined) or the snapshot
collectSnapshot(vnResult, intlResult, day, env) ==
  IF ~IsOk(intlResult) THEN Undefined
  ELSE LET vndRate == historicalRate(env)
           intl == intlResult.data[1]
           intlVndPerTael == TimesTael(PerOunceToGram(intl.pricePerOunce) * vndRate)
           base == [date |-> day,
                    international |-> [usdPerOunce |-> intl.pricePerOunce,
                                       vndPerTael |-> intlVndPerTael],
                    exchangeRate |-> vndRate,
                    premium |-> Num(0)]
           mieng == firstWithSource(dataOf(vnResult), "SJC Mieng")
           nhan == firstWithSource(dataOf(vnResult), "SJC Nhan")
           withMieng ==
             IF Len(mieng) = 0 THEN base
             ELSE [f \in DOMAIN base \cup {"sjcMieng"} |->
                     IF f = "sjcMieng"
                       THEN [buy |-> mieng[1].buyPrice, sell |-> mieng[1].sellPrice]
                     ELSE IF f = "premium"
                       THEN Percent(mieng[1].sellPrice - intlVndPerTael, intlVndPerTael)
                     ELSE base[f]]
       IN IF Len(nhan) = 0 THEN withMieng
          ELSE [f \in DOMAIN withMieng \cup {"sjcNhan"} |->
                  IF f = "sjcNhan"
                    THEN [buy |-> nhan[1].buyPrice, sell |-> nhan[1].sellPrice]
                    ELSE withMieng[f]]

\* the snapshot an earlier run stored for date d when the international
\* price was 0: its premium, Infinity, is in the file as null
UnpricedSnapshot(d) ==
  jsonSnapshots(<<collectSnapshot(Ok(<<SjcQuote("SJC Mieng", 1931625000)>>),
                                  Ok(<<IntlQuote("TwelveData", 0)>>), d, Undefined)>>)[1]

\* the stores earlier runs can have left: one snapshot per date, ascending;
\* the first date's may be one stored without a premium
InitialStores ==
  {[k \in 1..Len(AscendingFrom(D, 1)) |->
      IF AscendingFrom(D, 1)[k] \in U THEN UnpricedSnapshot(AscendingFrom(D, 1)[k])
                                       ELSE OldSnapshot(AscendingFrom(D, 1)[k])] :
     D \in SUBSET Dates, U \in SUBSET {1}}

\* a store from which nothing is removed before the new snapshot is pushed
keepAll(store, day) == store

\* existing.snapshots.filter(s => s.date !== today)
withoutDate(store, day) == SelectSeq(store, LAMBDA s : s.date # day)

\* main() loads the store, drops today's entry from its copy and calls
\* collectSnapshot(), which starts both fetches
CollectDailyStart ==
  /\ cmd = "collect-daily" /\ pc = "start"
  /\ pc' = "collect"
  /\ existing' = withoutDate(snapshots, today)
  /\ status' = [status EXCEPT !["vietnam"] = "pending", !["international"] = "pending"]
  /\ awaiting' = [awaiting EXCEPT
       !["international"] = chainStep("international", <<>>).adapter]
  /\ UNCHANGED <<ddVars, fnVars, buildVars, cmd, twelveKey, goldApiKey, ratesStatus, ratesResult, tried, result,
                 xauusdPrice, raw, errors, normalized, vietnamPremium, exitCode,
                 latestJson, snapshots, today, historicalRateEnv>>

\* Promise.all has settled: no snapshot ends the run with status 1; else the
\* snapshot is pushed onto the copy, the copy is sorted and Bun.write() is
\* called with its JSON text and awaited
CollectDailyFinish ==
  /\ cmd = "collect-daily" /\ pc = "collect"
  /\ status["vietnam"] = "done" /\ status["international"] = "done"
  /\ LET snapshot == collectSnapshot(result["vietnam"], result["international"],
                                     today, historicalRateEnv)
     IN IF snapshot = Undefined
          THEN exitCode' = 1 /\ pc' = "exited" /\ UNCHANGED existing
          ELSE /\ existing' = sortByDate(Append(existing, snapshot))
               /\ pc' = "write" /\ UNCHANGED exitCode
  /\ UNCHANGED <<ddVars, fnVars, buildVars, cmd, twelveKey, goldApiKey, ratesStatus, ratesResult, xauusdPrice,
                 raw, errors, normalized, vietnamPremium, latestJson, snapshots, today, historicalRateEnv>>
  /\ UNCHANGED chainVars

\* Bun.write() of the store has settled in collect-daily, update-vietnam-daily
\* or backfill-vietnam: the file holds the JSON text of the copy and main()
\* prints its report and returns, or the write rejected and the file holds
\* what it held: main() rejects, main().catch(console.error) prints the error.
\* The report of collect-daily calls s.premium.toFixed(1) on the last seven
\* snapshots of the copy, which throws on a premium loaded as null: main()
\* rejects after the write. The status is 0 in every case
StoreWrite ==
  /\ cmd \in {"collect-daily", "update-vietnam-daily", "backfill-vietnam"}
  /\ pc = "write"
  /\ \E written \in BOOLEAN :
       IF written
         THEN /\ snapshots' = jsonSnapshots(existing)
              /\ pc' = IF /\ cmd = "collect-daily"
                          /\ \E k \in 1..Len(existing) :
                               k > Len(existing) - 7 /\ existing[k].premium = Null
                         THEN "threw" ELSE "exited"
         ELSE UNCHANGED snapshots /\ pc' = "threw"
  /\ exitCode' = 0
  /\ UNCHANGED <<ddVars, fnVars, buildVars, cmd, twelveKey, goldApiKey, ratesStatus, ratesResult, xauusdPrice,
                 raw, errors, normalized, vietnamPremium, latestJson, today, historicalRateEnv, existing>>
  /\ UNCHANGED chainVars

\* ------------------------------------------------------------------------
\* Specification of the acquisition programs
\* ------------------------------------------------------------------------

AcqInit ==
  /\ cmd \in {"fetch-all", "collect-daily"}
  /\ pc = "start"
  /\ twelveKey \in BOOLEAN
  /\ goldApiKey \in BOOLEAN
  /\ ratesStatus = "idle"
  /\ ratesResult = Undefined
  /\ status = [m \in Markets |-> "idle"]
  /\ awaiting = [m \in Chains |-> "none"]
  /\ tried = [m \in Chains |-> <<>>]
  /\ result = [m \in Markets |-> Undefined]
  /\ xauusdPrice = 0
  /\ raw = [m \in Markets |-> <<>>]
  /\ errors = <<>>
  /\ normalized = <<>>
  /\ vietnamPremium = Undefined
  /\ exitCode = -1
  /\ latestJson = Undefined
  /\ snapshots \in (IF cmd = "collect-daily" THEN InitialStores ELSE {<<>>})
  /\ today \in (IF cmd = "collect-daily" THEN Dates ELSE {1})
  \* HISTORICAL_EXCHANGE_RATE: not set, or set to a rate other than the default
  /\ historicalRateEnv \in (IF cmd = "collect-daily" THEN {Undefined, Num(26000)}
                                                      ELSE {Undefined})
  /\ existing = <<>>

AcqNext ==
  \/ FetchAllStart
  \/ FetchAllRatesReply
  \/ IntlTwelveDataReply
  \/ IntlFreeGoldReply
  \/ IntlGoldApiReply
  \/ StartMarkets
  \/ VietnamReply
  \/ IndiaReply
  \/ \E m \in Regional : RegionalPrimaryReply(m)
  \/ \E m \in Regional : RegionalCalculatedReply(m)
  \/ Aggregate
  \/ SaveLatest
  \/ CollectDailyStart
  \/ CollectDailyFinish
  \/ StoreWrite

\* no series is loaded while an acquisition program runs
DdIdle ==
  /\ data = <<>> /\ minDrawdownPct = DEFAULT_MIN_DRAWDOWN /\ i = 0
  /\ drawdowns = <<>> /\ scan = "idle" /\ visited = <<>>

\* no library function is applied on its own
FnIdle == call = [fn |-> "none"] /\ ret = Undefined

\* no scheduled build runs
BuildIdle ==
  /\ buildStep = 0
  /\ files = [f \in {} |-> "absent"]
  /\ buildExit = -1

Init == AcqInit /\ DdIdle /\ FnIdle /\ BuildIdle

Next == AcqNext

Spec == Init /\ [][Next]_vars


\* ------------------------------------------------------------------------
\* analyze-drawdowns: findDrawdowns(data, minDrawdownPct)
\* ------------------------------------------------------------------------

\* longest series of the model
MaxLen == 6
\* prices of the general series, and of the series around the 10% boundary
Prices == {70, 80, 90, 100, 105}
BoundaryPrices == {900, 901, 1000}
\* thresholds: none, the default, and one between a 20% and a 30% decline
MinPcts == {0, DEFAULT_MIN_DRAWDOWN, 25}

SeriesOver(P) == UNION {[1..n -> P] : n \in 0..MaxLen}

\* data[k] of the source (0-based)
At(d, k) == d[k + 1]

lookAheadOf(d, k) == Min(LOOKAHEAD, Len(d) - k - 1)

\* a peak test without the lookahead window
isPeakAlways(d, k) == TRUE

\* a peak test against every later point of the series
isPeakUnbounded(d, k) == \A j \in 1..(Len(d) - k - 1) : ~(At(d, k + j) > At(d, k))

\* no point of the lookahead window is above data[k]
isPeak(d, k) == \A j \in 1..lookAheadOf(d, k) : ~(At(d, k + j) > At(d, k))

RECURSIVE troughScan(_, _, _, _)
\* the inner loop from index j on, with the trough found so far at t
troughScan(d, peakIdx, j, t) ==
  IF j >= Len(d) THEN [troughIdx |-> t, recoveryIdx |-> Null]
  ELSE LET t2 == IF At(d, j) < At(d, t) THEN j ELSE t IN
         IF At(d, j) >= At(d, peakIdx) /\ j > t2
           THEN [troughIdx |-> t2, recoveryIdx |-> Num(j)]
           ELSE troughScan(d, peakIdx, j + 1, t2)

\* an inner loop that starts two points after the peak
findTroughLate(d, peakIdx) == troughScan(d, peakIdx, peakIdx + 2, peakIdx)

\* for (let j = i + 1; j < data.length; j++) with trough = peak, troughIdx = i
findTrough(d, peakIdx) == troughScan(d, peakIdx, peakIdx + 1, peakIdx)

\* (peak - trough) / peak * 100, kept as the exact fraction num / den
drawdownPctOf(peakPrice, troughPrice) ==
  [num |-> (peakPrice - troughPrice) * 100, den |-> peakPrice]

\* a threshold test that leaves out the boundary: drawdownPct > minDrawdownPct
isSignificantStrict(peakPrice, troughPrice, minPct) ==
  drawdownPctOf(peakPrice, troughPrice).num
    > minPct * drawdownPctOf(peakPrice, troughPrice).den

\* drawdownPct >= minDrawdownPct (peak prices are positive)
isSignificant(peakPrice, troughPrice, minPct) ==
  drawdownPctOf(peakPrice, troughPrice).num
    >= minPct * drawdownPctOf(peakPrice, troughPrice).den

\* a scan that resumes at the trough itself
resumeAtTrough(troughIdx, recoveryIdx) == troughIdx - 1

\* recoveryIdx ?? troughIdx
resumeIndex(troughIdx, recoveryIdx) ==
  IF recoveryIdx.kind = "number" THEN recoveryIdx.value ELSE troughIdx

\* a loop whose index stays where it is
sameIndex(k) == k

\* i++ at the end of every iteration
nextIndex(k) == k + 1

\* the record pushed for the candidate peak at k; the date of point k is k
drawdownAt(d, k) ==
  LET f == findTrough(d, k) IN
    [peakDate |-> k, peakPrice |-> At(d, k),
     troughDate |-> f.troughIdx, troughPrice |-> At(d, f.troughIdx),
     drawdownPct |-> drawdownPctOf(At(d, k), At(d, f.troughIdx)),
     recoveryDate |-> f.recoveryIdx,
     daysToTrough |-> f.troughIdx - k,
     daysToRecovery |-> IF f.recoveryIdx.kind = "number"
                          THEN Num(f.recoveryIdx.value - k) ELSE Null,
     recovered |-> f.recoveryIdx.kind = "number"]

loopRuns == scan = "loop" /\ i < Len(data) - 1

candidateSignificant ==
  LET f == findTrough(data, i) IN
    isSignificant(At(data, i), At(data, f.troughIdx), minDrawdownPct)

ddInputs == <<data, minDrawdownPct>>

\* data[i] is below a point of its window: next index
ScanRejected ==
  /\ loopRuns
  /\ ~isPeak(data, i)
  /\ i' = nextIndex(i)
  /\ visited' = Append(visited, i)
  /\ UNCHANGED <<acqVars, fnVars, buildVars, ddInputs, drawdowns, scan>>

\* a peak whose decline is below the threshold: next index
ScanDiscarded ==
  /\ loopRuns
  /\ isPeak(data, i)
  /\ ~candidateSignificant
  /\ i' = nextIndex(i)
  /\ visited' = Append(visited, i)
  /\ UNCHANGED <<acqVars, fnVars, buildVars, ddInputs, drawdowns, scan>>

\* a peak whose decline reaches the threshold: push, skip past recovery or trough
ScanEmitted ==
  /\ loopRuns
  /\ isPeak(data, i)
  /\ candidateSignificant
  /\ LET f == findTrough(data, i) IN
       i' = nextIndex(resumeIndex(f.troughIdx, f.recoveryIdx))
  /\ drawdowns' = Append(drawdowns, drawdownAt(data, i))
  /\ visited' = Append(visited, i)
  /\ UNCHANGED <<acqVars, fnVars, buildVars, ddInputs, scan>>

\* the while condition fails: return drawdowns
ScanReturn ==
  /\ scan = "loop"
  /\ ~(i < Len(data) - 1)
  /\ scan' = "returned"
  /\ UNCHANGED <<acqVars, fnVars, buildVars, ddInputs, i, drawdowns, visited>>

\* no acquisition runs while program c does
AcqIdleFor(c) ==
  /\ cmd = c /\ pc = "start"
  /\ twelveKey = FALSE /\ goldApiKey = FALSE
  /\ ratesStatus = "idle" /\ ratesResult = Undefined
  /\ status = [m \in Markets |-> "idle"]
  /\ awaiting = [m \in Chains |-> "none"]
  /\ tried = [m \in Chains |-> <<>>]
  /\ result = [m \in Markets |-> Undefined]
  /\ xauusdPrice = 0
  /\ raw = [m \in Markets |-> <<>>]
  /\ errors = <<>> /\ normalized = <<>> /\ vietnamPremium = Undefined
  /\ exitCode = -1 /\ latestJson = Undefined /\ snapshots = <<>> /\ today = 1
  /\ historicalRateEnv = Undefined /\ existing = <<>>

\* no acquisition runs while a series is analysed
AcqIdle == AcqIdleFor("analyze-drawdowns")

DdInit ==
  /\ AcqIdle /\ FnIdle /\ BuildIdle
  /\ data \in SeriesOver(Prices) \cup SeriesOver(BoundaryPrices)
  /\ minDrawdownPct \in MinPcts
  /\ i = 0
  /\ drawdowns = <<>>
  /\ scan = "loop"
  /\ visited = <<>>

DdNext ==
  \/ ScanRejected
  \/ ScanDiscarded
  \/ ScanEmitted
  \/ ScanReturn

SpecDrawdown == DdInit /\ [][DdNext]_vars

\* four price levels: every pattern of rises, falls and returns to a level
LevelPrices == {70, 90, 100, 105}

DdInitLevels ==
  /\ AcqIdle /\ FnIdle /\ BuildIdle
  /\ data \in SeriesOver(LevelPrices)
  /\ minDrawdownPct \in MinPcts
  /\ i = 0
  /\ drawdowns = <<>>
  /\ scan = "loop"
  /\ visited = <<>>

\* points that follow the lookahead window of index 0
MaxTail == 2

\* series longer than the window: a first point of 100, a window of LOOKAHEAD
\* points at 90 of which at most one is at or above the first point, and a
\* tail below or above it
LongSeries ==
  LET windows ==
        {[k \in 1..LOOKAHEAD |-> 90]}
          \cup {[k \in 1..LOOKAHEAD |-> IF k = w THEN v ELSE 90] :
                  w \in 1..LOOKAHEAD, v \in {100, 105}}
      tails == UNION {[1..n -> {90, 110}] : n \in 0..MaxTail}
  IN {<<100>> \o w \o t : w \in windows, t \in tails}

DdInitLong ==
  /\ AcqIdle /\ FnIdle /\ BuildIdle
  /\ data \in LongSeries
  /\ minDrawdownPct \in MinPcts
  /\ i = 0
  /\ drawdowns = <<>>
  /\ scan = "loop"
  /\ visited = <<>>

SpecDrawdownLong == DdInitLong /\ [][DdNext]_vars

\* fair scanning: an enabled iteration of the loop is eventually taken
SpecDrawdownFair == DdInitLevels /\ [][DdNext]_vars /\ WF_vars(DdNext)


\* ------------------------------------------------------------------------
\* Library functions applied on their own
\* ------------------------------------------------------------------------

\* most quotes handed to normalizeToVND in one call
MaxQuotes == 2

\* THB stands for a currency the exchange-rate API was not asked for
QuoteCurrencies == {"VND", "USD", "CNY", "THB"}

\* a per-gram price in the quote's own currency
BaseGram(cur) ==
  CASE cur = "VND" -> 51000000
    [] cur = "USD" -> 2000
    [] cur = "CNY" -> 14000
    [] OTHER -> 70000

\* the sell price is that of a slightly dearer gram
SellGram(cur) == BaseGram(cur) + (IF cur = "CNY" THEN 14 ELSE 2)

\* a GoldPrice with the optional price fields absent, zero or set
RawQuote(cur, g, t, s) ==
  LET fields == {"source", "country", "currency"}
                  \cup (IF g = "absent" THEN {} ELSE {"pricePerGram"})
                  \cup (IF t = "absent" THEN {} ELSE {"pricePerTael"})
                  \cup (IF s = "absent" THEN {} ELSE {"sellPrice"})
  IN [f \in fields |->
        CASE f = "source" -> "Quote"
          [] f = "country" -> "Market"
          [] f = "currency" -> cur
          [] f = "pricePerGram" -> (IF g = "zero" THEN 0 ELSE BaseGram(cur))
          [] f = "pricePerTael" -> TimesTael(BaseGram(cur))
          [] f = "sellPrice" -> TimesTael(SellGram(cur))]

RawQuotes ==
  {RawQuote(cur, g, t, s) :
     cur \in QuoteCurrencies, g \in {"absent", "zero", "set"},
     t \in {"absent", "set"}, s \in {"absent", "set"}}

\* the full table, one without VND and one without CNY
RateTables ==
  {fetchAllRates(ApiRate),
   fetchAllRates([CNY |-> 7, RUB |-> 90, INR |-> 83]),
   fetchAllRates([VND |-> 25500, RUB |-> 90, INR |-> 83])}

NormalizeCalls ==
  {[fn |-> "normalizeToVND", prices |-> q, rates |-> r] :
     q \in UNION {[1..n -> RawQuotes] : n \in 0..MaxQuotes}, r \in RateTables}

\* what normalizeToVND writes to the console: nothing
normalizeLog(prices, rates) == <<>>

Returned(v) == [value |-> v]

NormalizeCall ==
  /\ call.fn = "normalizeToVND" /\ ret = Undefined
  /\ ret' = [value |-> normalizeToVND(call.prices, call.rates),
             log |-> normalizeLog(call.prices, call.rates)]
  /\ UNCHANGED <<acqVars, ddVars, buildVars, call>>

\* longest price history handed to the statistics
MaxPoints == 4
\* vndPerTael of a history point: as many levels as a history has points
PriceLevels == 1..MaxPoints
Histories == UNION {[1..n -> PriceLevels] : n \in 0..MaxPoints}

RECURSIVE InsertAscending(_, _)
\* v placed after the last element of sorted that is <= v
InsertAscending(sorted, v) ==
  IF Len(sorted) = 0 THEN <<v>>
  ELSE IF sorted[Len(sorted)] <= v THEN Append(sorted, v)
  ELSE Append(InsertAscending(SubSeq(sorted, 1, Len(sorted) - 1), v), sorted[Len(sorted)])

RECURSIVE SortAscendingFrom(_, _, _)
SortAscendingFrom(seq, k, acc) ==
  IF k > Len(seq) THEN acc
  ELSE SortAscendingFrom(seq, k + 1, InsertAscending(acc, seq[k]))

\* values.sort((a, b) => a - b)
sortAscending(seq) == SortAscendingFrom(seq, 1, <<>>)

\* sorted.findIndex(p => p >= current): 0-based, -1 when there is none
findIndexAtLeast(sorted, current) ==
  IF \E k \in 1..Len(sorted) : sorted[k] >= current
    THEN (CHOOSE k \in 1..Len(sorted) :
            sorted[k] >= current /\ \A j \in 1..(k - 1) : ~(sorted[j] >= current)) - 1
    ELSE -1

\* Math.round((a / b) * 100) for 0 <= a < b, in IEEE-754 double arithmetic.
\* The quotient is rounded to 53 bits before it is multiplied, so a value that
\* is exactly k + 1/2 can come out just below it and round down to k
\* (23 / 40 gives 57.49999999999999). Away from a half the double is within
\* 1e-13 of the exact value, whose distance from a half is at least 1/(2b).
\*   t  : a / b lies in [2^-t, 2^(1-t)), its significand has 52 + t fraction bits
\*   r  : remainder of a * 2^(52+t) by b; the quotient is rounded down by r / b
\*        units in the last place when 2r < b, and up otherwise
\*   e  : k + 1/2 lies in [2^e, 2^(e+1)); the product is rounded to the nearest
\*        multiple of 2^(e-52), ties to the even significand, which is k + 1/2
RoundPercent(a, b) ==
  LET exact == (a * 200 + b) \div (2 * b)
      isHalf == a > 0 /\ (200 * a) % b = 0 /\ ((200 * a) \div b) % 2 = 1
      k == exact - 1
      RECURSIVE shift(_)
      shift(n) == IF a * 2^n >= b THEN n ELSE shift(n + 1)
      RECURSIVE log2(_)
      log2(n) == IF n < 2 THEN 0 ELSE 1 + log2(n \div 2)
      RECURSIVE pow2mod(_)
      pow2mod(n) == IF n = 0 THEN 1 % b ELSE (2 * pow2mod(n - 1)) % b
      t == shift(0)
      e == log2(2 * k + 1) - 1
      r == ((a % b) * pow2mod(52 + t)) % b
  IN IF isHalf /\ 2 * r < b /\ 100 * r > b * 2^(e - 1 + t) THEN k ELSE exact

\* index < 0 ? 100 : Math.round((index / sorted.length) * 100)
percentileOf(values, current) ==
  LET sorted == sortAscending(values)
      index == findIndexAtLeast(sorted, current)
  IN IF index < 0 THEN 100 ELSE RoundPercent(index, Len(sorted))

\* calcPercentile5y(longHistory) on longHistory.data's vndPerTael
calcPercentile5y(history) ==
  IF Len(history) < 2 THEN Null
  ELSE Num(percentileOf(history, history[Len(history)]))

\* the percentile of calculateLongTermContext(): the current price is the last
\* point of the short history, else the last point of the long one
longTermPercentile(long, short) ==
  LET currentVnd == IF Len(short) > 0 THEN short[Len(short)] ELSE long[Len(long)]
  IN Num(percentileOf(long, currentVnd))

PercentileCalls ==
  {[fn |-> "calcPercentile5y", history |-> h] : h \in Histories}
    \cup {[fn |-> "calcPercentile5y",
            history |-> [k \in 1..40 |-> IF k <= 23 THEN 1 ELSE 2]]}
    \cup {[fn |-> "calculateLongTermContext", long |-> h, short |-> <<c>>] :
            h \in Histories \ {<<>>}, c \in PriceLevels}
    \cup {[fn |-> "calculateLongTermContext", long |-> h, short |-> <<>>] :
            h \in Histories \ {<<>>}}

PercentileCall ==
  /\ call.fn \in {"calcPercentile5y", "calculateLongTermContext"} /\ ret = Undefined
  /\ ret' = Returned(IF call.fn = "calcPercentile5y"
                       THEN calcPercentile5y(call.history)
                       ELSE longTermPercentile(call.long, call.short))
  /\ UNCHANGED <<acqVars, ddVars, buildVars, call>>

\* the windows of calculateInsights()
MA7 == 7
MA30 == 30

Frac(n, d) == [kind |-> "fraction", num |-> n, den |-> d]

RECURSIVE SumFrom(_, _)
\* values[k] + ... + values[Len(values)]
SumFrom(values, k) ==
  IF k > Len(values) THEN 0 ELSE values[k] + SumFrom(values, k + 1)

\* values.slice(-period): the whole array when it is shorter than period
sliceLast(values, period) ==
  IF Len(values) <= period THEN values
  ELSE SubSeq(values, Len(values) - period + 1, Len(values))

\* movingAverage(values, period), period >= 1
movingAverage(values, period) ==
  IF Len(values) < period THEN Null
  ELSE Frac(SumFrom(sliceLast(values, period), 1), period)

\* ma7 and ma30 of calculateInsights(), which throws on an empty history
insightsAverages(prices) ==
  IF Len(prices) = 0 THEN [kind |-> "thrown", error |-> "No historical data available in history.json"]
  ELSE [kind |-> "insights",
        ma7 |-> Frac(SumFrom(sliceLast(prices, MA7), 1), MA7),
        ma30 |-> IF Len(prices) >= MA30
                   THEN Frac(SumFrom(sliceLast(prices, MA30), 1), MA30)
                   ELSE Frac(SumFrom(prices, 1), Len(prices))]

AverageCalls ==
  {[fn |-> "movingAverage", values |-> h, period |-> n] :
     h \in Histories, n \in 1..(MaxPoints + 1)}
    \cup {[fn |-> "calculateInsights", prices |-> h] : h \in Histories}

AverageCall ==
  /\ call.fn \in {"movingAverage", "calculateInsights"} /\ ret = Undefined
  /\ ret' = Returned(IF call.fn = "movingAverage"
                       THEN movingAverage(call.values, call.period)
                       ELSE insightsAverages(call.prices))
  /\ UNCHANGED <<acqVars, ddVars, buildVars, call>>

\* ------------------------------------------------------------------------
\* First-principles data: assessCoverage(data)
\* ------------------------------------------------------------------------

STALE_FACTOR_DAYS == 10
MIN_NEWS_PER_CATEGORY == 3

\* most factors of a data set
MaxFactors == 2

\* the date of a time point is kept as its age in days: Num(age), negative
\* for a date in the future, or NaN for a string that does not parse.
\* Number.isNaN(date.getTime()) ? true : ageDays > staleDays
isStale(date, staleDays) == IF date = NaN THEN TRUE ELSE date.value > staleDays

\* a news category that needs more than the minimum
hasMoreThanMinimum(count) == count > MIN_NEWS_PER_CATEGORY

\* count >= MIN_NEWS_PER_CATEGORY
hasEnough(count) == count >= MIN_NEWS_PER_CATEGORY

assessCoverage(d) ==
  LET missing == SelectSeq(d.factors, LAMBDA f : f.latest = Null)
      stale == SelectSeq(d.factors,
                 LAMBDA f : f.latest # Null /\ isStale(f.latest.date, STALE_FACTOR_DAYS))
      failures == SelectSeq(d.sourceStatus, LAMBDA s : ~s.ok)
  IN [requiredFactors |-> Len(d.factors),
      availableFactors |-> Len(SelectSeq(d.factors, LAMBDA f : f.latest # Null)),
      missingFactors |-> [k \in 1..Len(missing) |-> missing[k].name],
      staleFactors |-> [k \in 1..Len(stale) |->
                          [name |-> stale[k].name, date |-> stale[k].latest.date]],
      minNewsRequired |-> MIN_NEWS_PER_CATEGORY,
      policyCount |-> Len(d.policyStatements),
      geopoliticalCount |-> Len(d.geopoliticalEvents),
      countryActionCount |-> Len(d.countryActions),
      dollarYieldCount |-> Len(d.dollarAndYieldDrivers),
      sourceFailures |-> [k \in 1..Len(failures) |->
                            [id |-> failures[k].id,
                             \* status.error || 'Unknown error'
                             error |-> IF /\ "error" \in DOMAIN failures[k]
                                          /\ failures[k].error # ""
                                         THEN failures[k].error ELSE "Unknown error"]],
      healthy |-> /\ Len(missing) = 0
                  /\ Len(stale) = 0
                  /\ hasEnough(Len(d.policyStatements))
                  /\ hasEnough(Len(d.geopoliticalEvents))
                  /\ hasEnough(Len(d.countryActions))
                  /\ hasEnough(Len(d.dollarAndYieldDrivers))]

\* data sets: factors without a value, dated in the future, fresh, at the
\* staleness limit, past it or with an unreadable date; news lists around the
\* minimum; no failed source, or one that failed with a message, with an empty
\* message or with none
AssessCalls ==
  LET latests == {Null, [date |-> NaN]} \cup {[date |-> Num(a)] :
                     a \in {-1, 0, STALE_FACTOR_DAYS, STALE_FACTOR_DAYS + 1}}
      factorLists == UNION {{[k \in 1..n |-> [name |-> k, latest |-> l[k]]] :
                               l \in [1..n -> latests]} : n \in 0..MaxFactors}
      news == {[k \in 1..n |-> "item"] :
                 n \in (MIN_NEWS_PER_CATEGORY - 1)..(MIN_NEWS_PER_CATEGORY + 1)}
  IN {[fn |-> "assessCoverage",
       data |-> [factors |-> f, policyStatements |-> p, geopoliticalEvents |-> g,
                 countryActions |-> c, dollarAndYieldDrivers |-> y,
                 sourceStatus |-> u]] :
        f \in factorLists, p \in news, g \in news, c \in news, y \in news,
        u \in {<<>>, <<[id |-> "fred", ok |-> FALSE]>>,
               <<[id |-> "fred", ok |-> FALSE, error |-> ""]>>,
               <<[id |-> "fred", ok |-> FALSE, error |-> "HTTP 500"]>>}}

AssessCall ==
  /\ call.fn = "assessCoverage" /\ ret = Undefined
  /\ ret' = Returned(assessCoverage(call.data))
  /\ UNCHANGED <<acqVars, ddVars, buildVars, call>>

FnCalls == NormalizeCalls \cup PercentileCalls \cup AverageCalls \cup AssessCalls

FnInit ==
  /\ AcqIdleFor("library") /\ DdIdle /\ BuildIdle
  /\ call \in FnCalls
  /\ ret = Undefined

FnNext ==
  \/ NormalizeCall
  \/ PercentileCall
  \/ AverageCall
  \/ AssessCall

SpecLibrary == FnInit /\ [][FnNext]_vars


\* ------------------------------------------------------------------------
\* Properties of the fallback chains and of fetch-all (under Spec)
\* ------------------------------------------------------------------------

NoneOkBefore(log, n) == \A k \in 1..n : ~log[k].result.ok

\* C1: a fallback chain invokes its adapters strictly in list order, invokes
\* nothing after the first success, and returns that first success at once.
C1_FallbackOrder ==
  \A m \in Chains :
    LET log == tried[m]
        n == Len(log)
    IN /\ n <= Len(AdapterList(m))
       /\ \A k \in 1..n : log[k].adapter = AdapterList(m)[k]
       /\ NoneOkBefore(log, n - 1)
       /\ awaiting[m] # "none" =>
            /\ NoneOkBefore(log, n)
            /\ n < Len(AdapterList(m))
            /\ awaiting[m] = AdapterList(m)[n + 1]
       /\ (n > 0 /\ log[n].result.ok) =>
            /\ status[m] = "done"
            /\ result[m] = log[n].result

\* TwelveData failed, FreeGoldAPI delivered and was returned, and GoldAPI.io,
\* although configured, was never invoked
C1_Witness ==
  /\ goldApiKey
  /\ Len(tried["international"]) = 2
  /\ ~tried["international"][1].result.ok
  /\ tried["international"][2].result.ok
  /\ status["international"] = "done"
  /\ result["international"] = tried["international"][2].result

\* C2: when a chain ends in failure, the error it returns is the error of the
\* last adapter it attempted.
C2_LastErrorReturned ==
  \A m \in Chains :
    (status[m] = "done" /\ ~IsOk(result[m]) /\ Len(tried[m]) > 0)
      => result[m] = tried[m][Len(tried[m])].result

\* the markets whose fetchAll() came back with ok: false
FailedMarkets == {m \in Markets : status[m] = "done" /\ ~IsOk(result[m])}

\* C3: when some markets fail and the benchmark succeeds, the run ends with
\* status 0 and its aggregate holds the quotes of every market that succeeded
\* and one warning per failed market.
C3_PartialFailureTolerance ==
  (/\ cmd = "fetch-all" /\ pc \in {"exited", "threw"}
   /\ IsOk(ratesResult) /\ IsOk(result["international"])
   /\ FailedMarkets # {})
    => /\ exitCode = 0
       /\ latestJson # Undefined
       /\ \A m \in Markets : IsOk(result[m]) => Len(latestJson.raw[m]) > 0
       /\ "errors" \in DOMAIN latestJson
       /\ Len(errors) = Cardinality(FailedMarkets)

\* C4: when the international benchmark cannot be obtained the run ends with
\* a non-zero status and produces no aggregate.
C4_BenchmarkFailureIsFatal ==
  (/\ cmd = "fetch-all" /\ pc \in {"exited", "threw"}
   /\ status["international"] = "done" /\ ~IsOk(result["international"]))
    => /\ exitCode # 0
       /\ latestJson = Undefined

\* C5: in a fetch-all cycle no dependent market (Vietnam, China, Russia,
\* India) has been started unless the exchange-rate fetch and the benchmark
\* fetch have both completed.
C5_PrerequisitesFirst ==
  cmd = "fetch-all" =>
    \A m \in Dependents :
      status[m] # "idle" =>
        /\ ratesStatus = "done"
        /\ status["international"] = "done"

\* the four dependents have just been started and none has replied
C5_Witness ==
  /\ cmd = "fetch-all" /\ pc = "markets"
  /\ \A m \in Dependents : status[m] = "pending"
  /\ ratesStatus = "done" /\ status["international"] = "done"

\* C10: the premium is a number only when the local price and a positive
\* benchmark are both there; it is never stored or reported as zero otherwise.
C10_PremiumNeverZeroWhenUnavailable ==
  /\ \A k \in 1..Len(snapshots) :
       snapshots[k].premium.kind = "number" =>
         /\ "sjcMieng" \in DOMAIN snapshots[k]
         /\ snapshots[k].international.vndPerTael > 0
  /\ (vietnamPremium # Undefined /\ vietnamPremium.premiumPercent.kind = "number") =>
       /\ Len(firstSjc(raw["vietnam"])) > 0
       /\ vietnamPremium.benchmarkVND.kind = "number"
       /\ vietnamPremium.benchmarkVND.value > 0


\* ------------------------------------------------------------------------
\* Properties of the drawdown detector (under SpecDrawdown)
\* ------------------------------------------------------------------------

SpecExampleSeries == <<100, 80, 70, 90, 100, 105>>
FlatRecoverySeries == <<100, 80, 70, 90, 100, 100>>

\* one event: peak 100 at 0, trough 70 at 2, recovery at 4, recovered
IsTheExampleEvent(ds) ==
  /\ Len(ds) = 1
  /\ ds[1].peakDate = 0 /\ ds[1].peakPrice = 100
  /\ ds[1].troughDate = 2 /\ ds[1].troughPrice = 70
  /\ ds[1].recoveryDate = Num(4)
  /\ ds[1].recovered

\* C6 as stated: for [100, 80, 70, 90, 100, 105] with threshold 10 the
\* detector returns exactly one drawdown, peak 100 at index 0, trough 70 at
\* index 2, recovery at index 4, recovered.
C6_SpecExample ==
  (scan = "returned" /\ data = SpecExampleSeries
   /\ minDrawdownPct = DEFAULT_MIN_DRAWDOWN)
    => IsTheExampleEvent(drawdowns)

\* C6 amended: for [100, 80, 70, 90, 100, 105] with threshold 10 the detector
\* returns no drawdown, the 105 inside the lookahead window ruling out index 0
\* (and every later index) as a peak; for [100, 80, 70, 90, 100, 100] it
\* returns exactly one: peak 100 at 0, trough 70 at 2, recovery at 4, recovered.
C6_RecoveryExample ==
  (scan = "returned" /\ minDrawdownPct = DEFAULT_MIN_DRAWDOWN) =>
    /\ data = SpecExampleSeries => drawdowns = <<>>
    /\ data = FlatRecoverySeries => IsTheExampleEvent(drawdowns)

C6_Witness ==
  /\ scan = "returned" /\ minDrawdownPct = DEFAULT_MIN_DRAWDOWN
  /\ data = FlatRecoverySeries
  /\ Len(drawdowns) = 1 /\ drawdowns[1].recovered

\* C7: of any two events of one run, the later one's peak index is strictly
\* greater than the earlier one's trough index.
C7_NonOverlap ==
  \A a \in 1..Len(drawdowns) : \A b \in 1..Len(drawdowns) :
    a < b => drawdowns[b].peakDate > drawdowns[a].troughDate

\* a run that has returned two events or more
C7_Witness == scan = "returned" /\ Len(drawdowns) >= 2

\* the decline of the candidate at index p reaches the threshold
DeclineReaches(p) ==
  LET t == findTrough(data, p).troughIdx IN
    (At(data, p) - At(data, t)) * 100 >= minDrawdownPct * At(data, p)

\* C8: a candidate is emitted exactly when its drawdownPct >= minDrawdownPct;
\* with threshold 10 a 9.9% decline gives no event and a 10.0% decline one.
C8_ThresholdBoundary ==
  /\ \A e \in 1..Len(drawdowns) :
       drawdowns[e].drawdownPct.num >= minDrawdownPct * drawdowns[e].drawdownPct.den
  /\ \A k \in 1..Len(visited) :
       (isPeak(data, visited[k]) /\ DeclineReaches(visited[k]))
         => \E e \in 1..Len(drawdowns) : drawdowns[e].peakDate = visited[k]
  /\ (scan = "returned" /\ minDrawdownPct = 10) =>
       /\ data = <<1000, 901>> => drawdowns = <<>>
       /\ data = <<1000, 900>> => Len(drawdowns) = 1

\* the series with the 10.0% decline has returned its one event
C8_Witness ==
  /\ scan = "returned" /\ minDrawdownPct = 10 /\ data = <<1000, 900>>
  /\ Len(drawdowns) = 1
  /\ drawdowns[1].peakPrice = 1000 /\ drawdowns[1].troughPrice = 900

\* the scan index after the iterations so far is above every index visited,
\* and the indices visited are strictly increasing positions of the series
ScanAdvances ==
  /\ \A k \in 1..Len(visited) :
       /\ visited[k] >= 0 /\ visited[k] < Len(data) - 1
       /\ k < Len(visited) => visited[k] < visited[k + 1]
       /\ visited[k] < i
  /\ Len(visited) <= Len(data)

\* C9: the scan index strictly increases on every iteration of the outer loop
\* (rejected, discarded or emitted), the loop runs at most once per index, and
\* the scan returns.
C9_ScanTerminates ==
  /\ []ScanAdvances
  /\ [][visited' # visited => i' > i]_vars
  /\ <>(scan = "returned")

\* a run that has returned after a rejected, a discarded and an emitted iteration
C9_Witness ==
  /\ scan = "returned"
  /\ Len(visited) >= 3
  /\ Len(drawdowns) >= 1
  /\ \E k \in 1..Len(visited) : ~isPeak(data, visited[k])
  /\ \E k \in 1..Len(visited) :
       isPeak(data, visited[k]) /\ ~DeclineReaches(visited[k])


\* ------------------------------------------------------------------------
\* Properties of normalization (under SpecLibrary)
\* ------------------------------------------------------------------------

normalizeReturned == call.fn = "normalizeToVND" /\ ret # Undefined

\* 2 * tael = 75 * gram, stated without leaving 32-bit integers
TaelIsGramTimes37_5(q) ==
  /\ q.vndPerTael % TAEL_NUM = 0
  /\ (q.vndPerTael \div TAEL_NUM) * TAEL_DEN = q.vndPerGram

\* C11: every normalized quote has vndPerTael = vndPerGram * 37.5 exactly,
\* whatever tael price the raw quote carried.
C11_TaelGramConsistency ==
  normalizeReturned =>
    \A k \in 1..Len(ret.value) : TaelIsGramTimes37_5(ret.value[k])

\* a USD quote that carries its own tael price has been normalized
C11_Witness ==
  /\ normalizeReturned
  /\ \E k \in 1..Len(call.prices) :
       /\ call.prices[k].currency = "USD"
       /\ Truthy(call.prices[k], "pricePerTael")
       /\ ret.value[k].vndPerGram = 51000000
       /\ ret.value[k].vndPerTael = 1912500000

\* C12: for a VND quote whose pricePerGram is set (present and non-zero),
\* vndPerGram is that pricePerGram unchanged, under every rate table and
\* whatever the quote's tael and sell prices are.
C12_NormalizationNoOp ==
  normalizeReturned =>
    \A k \in 1..Len(call.prices) :
      (call.prices[k].currency = "VND" /\ Truthy(call.prices[k], "pricePerGram"))
        => ret.value[k].vndPerGram = call.prices[k].pricePerGram

\* a VND quote with all three price fields, normalized under a table without VND
C12_Witness ==
  /\ normalizeReturned
  /\ "VND" \notin DOMAIN call.rates
  /\ \E k \in 1..Len(call.prices) :
       /\ call.prices[k].currency = "VND"
       /\ Truthy(call.prices[k], "pricePerGram")
       /\ Truthy(call.prices[k], "pricePerTael")
       /\ Truthy(call.prices[k], "sellPrice")
       /\ ret.value[k].vndPerGram = 51000000

\* the quote has no usable pricePerGram, pricePerTael or sellPrice
Unconvertible(p) ==
  /\ ~Truthy(p, "pricePerGram")
  /\ ~Truthy(p, "pricePerTael")
  /\ ~Truthy(p, "sellPrice")

\* C13: a raw quote without a usable price is dropped with a warning: the
\* output has one entry per convertible quote only, and none with price zero.
C13_UnconvertibleDropped ==
  normalizeReturned =>
    /\ Len(ret.value)
         = Cardinality({k \in 1..Len(call.prices) : ~Unconvertible(call.prices[k])})
    /\ \A k \in 1..Len(ret.value) : ret.value[k].vndPerGram # 0
    /\ (\E k \in 1..Len(call.prices) : Unconvertible(call.prices[k]))
         => Len(ret.log) > 0

\* the quote's currency is neither VND nor USD and the table has no rate for it
UnknownCurrency(p, rates) ==
  p.currency \notin {"VND", "USD"} /\ RateOf(rates, p.currency) = 0

\* C14: a quote in a currency the rate table lacks raises a data-quality
\* warning; its native number is not passed on as a VND price in silence.
C14_UnknownCurrencyWarned ==
  normalizeReturned =>
    \A k \in 1..Len(call.prices) :
      (UnknownCurrency(call.prices[k], call.rates) /\ ~Unconvertible(call.prices[k]))
        => Len(ret.log) > 0


\* ------------------------------------------------------------------------
\* Properties of the statistics (under SpecLibrary)
\* ------------------------------------------------------------------------

StrictlyIncreasing(h) == \A k \in 1..(Len(h) - 1) : h[k] < h[k + 1]

\* the history and the current price of a percentile call
percentileHistory == IF call.fn = "calcPercentile5y" THEN call.history ELSE call.long
percentileCurrent ==
  IF call.fn = "calcPercentile5y" THEN call.history[Len(call.history)]
  ELSE IF Len(call.short) > 0 THEN call.short[Len(call.short)]
  ELSE call.long[Len(call.long)]

\* C15: over a strictly increasing history the percentile is 100 when the
\* current price is the maximum and 0 when it is the minimum.
C15_PercentileAtExtremes ==
  (/\ call.fn \in {"calcPercentile5y", "calculateLongTermContext"}
   /\ ret # Undefined /\ ret.value # Null
   /\ StrictlyIncreasing(percentileHistory))
    => /\ percentileCurrent = percentileHistory[Len(percentileHistory)]
            => ret.value = Num(100)
       /\ (percentileCurrent = percentileHistory[1] /\ Len(percentileHistory) > 1)
            => ret.value = Num(0)

\* the mean of the trailing period points, as a fraction
TrailingMean(values, period) ==
  Frac(SumFrom(SubSeq(values, Len(values) - period + 1, Len(values)), 1), period)

\* what the claim asks of an average over period
AverageAsClaimed(values, period, r) ==
  IF Len(values) < period THEN r = Null ELSE r = TrailingMean(values, period)

\* C16: the moving average over period is the mean of the trailing period
\* points, and is undefined when the history has fewer points than period.
C16_MovingAverage ==
  ret # Undefined =>
    /\ call.fn = "movingAverage"
         => AverageAsClaimed(call.values, call.period, ret.value)
    /\ (call.fn = "calculateInsights" /\ ret.value.kind = "insights")
         => /\ AverageAsClaimed(call.prices, MA7, ret.value.ma7)
            /\ AverageAsClaimed(call.prices, MA30, ret.value.ma30)


\* ------------------------------------------------------------------------
\* Properties of a whole run (under Spec)
\* ------------------------------------------------------------------------

\* the artifact of fetch-all holds at least one normalized quote
CompleteLatest ==
  latestJson # Undefined /\ Len(latestJson.normalized) > 0

\* C17: a run that ends with status 0 has written a complete artifact: a
\* fetch-all that exits 0 has stored a data/latest.json with at least one
\* quote in it, also when every market is unavailable.
C17_ArtifactOrFailure ==
  (cmd = "fetch-all" /\ pc \in {"exited", "threw"} /\ exitCode = 0) => CompleteLatest

\* FetchResult<T>: { ok: true, data } or { ok: false, error }
TypedResult(r) ==
  \/ DOMAIN r = {"ok", "data"} /\ r.ok
  \/ DOMAIN r = {"ok", "error"} /\ ~r.ok

\* the reply of the fetch that market m is waiting for
ReplyOf(m) ==
  CASE m = "vietnam" -> VietnamReply
    [] m = "india" -> IndiaReply
    [] OTHER -> RegionalPrimaryReply(m) \/ RegionalCalculatedReply(m)

\* C18: whatever happens inside an adapter, the orchestrator only ever holds
\* typed results: every adapter reply recorded by a chain, every settled
\* market and the settled exchange rates are { ok: true, data } or
\* { ok: false, error }, never a raised exception; and while the four
\* dependent markets run, each pending one can still complete whatever the
\* others returned.
C18_TypedFailures ==
  /\ \A m \in Chains : \A k \in 1..Len(tried[m]) : TypedResult(tried[m][k].result)
  /\ \A m \in Markets : status[m] = "done" => TypedResult(result[m])
  /\ ratesStatus = "done" => TypedResult(ratesResult)
  /\ pc = "markets" =>
       \A m \in Dependents : status[m] = "pending" => ENABLED ReplyOf(m)

\* the China scraper raised a network error, the calculated fallback and the
\* other markets still completed, and the run wrote its artifact
C18_Witness ==
  /\ cmd = "fetch-all" /\ pc = "exited" /\ exitCode = 0
  /\ Len(tried["china"]) = 2
  /\ tried["china"][1].result = Err("TypeError: fetch failed")
  /\ IsOk(result["china"]) /\ IsOk(result["russia"]) /\ IsOk(result["vietnam"])
  /\ ~IsOk(result["india"])


\* ------------------------------------------------------------------------
\* The acquisition cycle against endpoints that may never respond
\* ------------------------------------------------------------------------

\* the steps the program takes on its own, once what they await has settled
ProgramStep ==
  \/ FetchAllStart \/ StartMarkets \/ Aggregate \/ SaveLatest
  \/ CollectDailyStart \/ CollectDailyFinish \/ StoreWrite

\* The program always takes its own steps. A reply is only forced where the
\* call passes a timeout to fetch(); the exchange-rate call and the price
\* adapters call fetch(url) or fetch(url, { headers }) with no signal, so no
\* reply action is fair: an endpoint may stay silent for ever.
SpecCycleFair == Init /\ [][Next]_vars /\ WF_vars(ProgramStep)

\* C19: no endpoint can block the acquisition cycle indefinitely: every run
\* of fetch-all and collect-daily eventually exits.
C19_CycleCompletes == <>(pc \in {"exited", "threw"})


\* ------------------------------------------------------------------------
\* The scheduled build: four programs run one after the other
\* ------------------------------------------------------------------------

\* what the build writes, in the order of its steps
Artifacts ==
  {"data/latest.json", "data/vietnam-history.json", "data/drawdowns.json",
   "data/dashboard.html"}

\* with what the build reads and never writes
DataFiles == Artifacts \cup {"data/history-19y.json", "data/history.json"}

\* await $`bun run ...` rejects on a non-zero status; main().catch() then
\* ends the build with status 1
StepFailed ==
  /\ buildExit' = 1
  /\ buildStep' = 0
  /\ UNCHANGED files

\* 1. src/fetch-all.ts: status 1 without a write when the rates fail, else
\* data/latest.json is written, or the write rejects and the status is 0
RunFetchAll ==
  /\ buildStep = 1
  /\ \/ StepFailed
     \/ /\ \/ files' = [files EXCEPT !["data/latest.json"] = "new"]
           \/ UNCHANGED files
        /\ buildStep' = 2
        /\ UNCHANGED buildExit
  /\ UNCHANGED <<acqVars, ddVars, fnVars>>

\* 2. src/collect-daily.ts: status 1 without a write when no snapshot could
\* be collected, else the store is written, or the write rejects and the
\* status is 0
RunCollectDaily ==
  /\ buildStep = 2
  /\ \/ StepFailed
     \/ /\ \/ files' = [files EXCEPT !["data/vietnam-history.json"] = "new"]
           \/ UNCHANGED files
        /\ buildStep' = 3
        /\ UNCHANGED buildExit
  /\ UNCHANGED <<acqVars, ddVars, fnVars>>

\* 3. src/analyze-drawdowns.ts: status 1 when the series file is missing;
\* status 0 without a write when no drawdown is found, when the series is
\* empty or when the write rejects; else data/drawdowns.json is written
RunAnalyzeDrawdowns ==
  /\ buildStep = 3
  /\ IF files["data/history-19y.json"] = "absent"
       THEN StepFailed
       ELSE /\ \/ UNCHANGED files
               \/ files' = [files EXCEPT !["data/drawdowns.json"] = "new"]
            /\ buildStep' = 4
            /\ UNCHANGED buildExit
  /\ UNCHANGED <<acqVars, ddVars, fnVars>>

\* 4. src/generate-dashboard.ts: status 1 when data/latest.json or
\* data/history.json is missing or when rendering throws; else
\* data/dashboard.html is written and the build ends with status 0
RunGenerateDashboard ==
  /\ buildStep = 4
  /\ IF files["data/latest.json"] = "absent" \/ files["data/history.json"] = "absent"
       THEN StepFailed
       ELSE \/ StepFailed
            \/ /\ files' = [files EXCEPT !["data/dashboard.html"] = "new"]
               /\ buildExit' = 0
               /\ buildStep' = 0
  /\ UNCHANGED <<acqVars, ddVars, fnVars>>

\* the build starts on a data directory left by earlier builds
BuildInit ==
  /\ AcqIdleFor("build") /\ DdIdle /\ FnIdle
  /\ buildStep = 1
  /\ buildExit = -1
  /\ files \in [DataFiles -> {"absent", "old"}]

BuildNext ==
  \/ RunFetchAll
  \/ RunCollectDaily
  \/ RunAnalyzeDrawdowns
  \/ RunGenerateDashboard

SpecBuild == BuildInit /\ [][BuildNext]_vars

\* C20: a build that fails at any step has written or modified no artifact:
\* the data directory is as the build found it.
C20_NoTornArtifacts ==
  buildExit = 1 => \A f \in Artifacts : files[f] # "new"


\* ------------------------------------------------------------------------
\* Properties of the exchange rates and of credentials (under Spec)
\* ------------------------------------------------------------------------

\* the cycle has no rate to convert USD to VND with
NoRateAvailable ==
  ratesStatus = "done" /\ (~IsOk(ratesResult) \/ "VND" \notin DOMAIN ratesResult.data)

\* C21: a fetch-all whose rate fetch failed, or whose rate table has no
\* USD-to-VND rate, normalizes no quote, writes no artifact and, once it has
\* exited, has a non-zero status.
C21_NoRateIsFatal ==
  (cmd = "fetch-all" /\ NoRateAvailable) =>
    /\ normalized = <<>>
    /\ latestJson = Undefined
    /\ pc \in {"exited", "threw"} => exitCode # 0

\* the adapter needs a credential that the environment does not hold
CredentialAbsent(a) ==
  \/ a = "TwelveData" /\ ~twelveKey
  \/ a = "GoldAPI.io" /\ ~goldApiKey

\* what the early return of an adapter without its credential looks like
NotSet(a) ==
  Err(IF a = "TwelveData" THEN "TWELVEDATA_API_KEY not set" ELSE "GOLDAPI_KEY not set")

\* first success of the replies in l; if there is none, FreeGoldAPI's failure
ChainOutcome(l) ==
  IF \E k \in 1..Len(l) : IsOk(l[k].result)
    THEN l[CHOOSE k \in 1..Len(l) :
             IsOk(l[k].result) /\ \A j \in 1..(k - 1) : ~IsOk(l[j].result)].result
    ELSE l[CHOOSE k \in 1..Len(l) : l[k].adapter = "FreeGoldAPI"].result

\* C22: an adapter of the international chain whose credential is absent
\* makes no network attempt (nothing comes back from it but its early
\* "not set" return, or it is not invoked at all), and the chain ends as it
\* would with that adapter left out of the list.
C22_AbsentCredentialSkipped ==
  LET log == tried["international"]
      others == SelectSeq(log, LAMBDA t : ~CredentialAbsent(t.adapter))
  IN /\ \A k \in 1..Len(log) :
          CredentialAbsent(log[k].adapter) =>
            /\ log[k].adapter # "GoldAPI.io"
            /\ log[k].result = NotSet(log[k].adapter)
     /\ (CredentialAbsent("GoldAPI.io") /\ status["international"] = "done") =>
          Len(log) <= 2
     /\ status["international"] = "done" =>
          result["international"] = ChainOutcome(others)

\* neither key is set: TwelveData returned early, FreeGoldAPI was called and
\* delivered, GoldAPI.io was never invoked
C22_Witness ==
  /\ ~twelveKey /\ ~goldApiKey
  /\ status["international"] = "done"
  /\ Len(tried["international"]) = 2
  /\ tried["international"][1].result = NotSet("TwelveData")
  /\ IsOk(result["international"])


\* ------------------------------------------------------------------------
\* Properties of the snapshot store (under Spec)
\* ------------------------------------------------------------------------

\* the positions of store that hold a snapshot dated day
DatedAt(store, day) == {k \in 1..Len(store) : store[k].date = day}

\* collect-daily ends successfully in this step: its write is done (main()
\* returns, or rejects in the report that follows the write)
CollectDailySucceeds ==
  /\ cmd = "collect-daily" /\ pc = "write" /\ pc' # "write"
  /\ snapshots' = jsonSnapshots(existing)

\* C23: a successful collect-daily leaves exactly one snapshot dated today,
\* the one it has just collected, and the snapshots of all other dates are
\* the ones the store held before, in the same order.
C23_UpsertToday ==
  [][CollectDailySucceeds =>
       /\ Cardinality(DatedAt(snapshots', today)) = 1
       /\ \A k \in DatedAt(snapshots', today) :
            <<snapshots'[k]>> = jsonSnapshots(<<collectSnapshot(
                                    result["vietnam"], result["international"],
                                    today, historicalRateEnv)>>)
       /\ SelectSeq(snapshots', LAMBDA s : s.date # today)
            = SelectSeq(snapshots, LAMBDA s : s.date # today)]_vars

\* a successful run on day 2 over a store that holds days 1, 2 and 3: the
\* snapshot of day 2 is the collected one, not the stored one
C23_Witness ==
  /\ cmd = "collect-daily" /\ pc = "exited" /\ exitCode = 0
  /\ today = 2
  /\ Len(snapshots) = 3
  /\ snapshots[1] = OldSnapshot(1) /\ snapshots[3] = OldSnapshot(3)
  /\ snapshots[2] # OldSnapshot(2)


\* ------------------------------------------------------------------------
\* Further properties of the drawdown detector (under SpecDrawdown)
\* ------------------------------------------------------------------------

\* C24: every iteration that evaluates a candidate peak, whether its
\* drawdown is emitted or discarded, moves the index to the recovery index
\* plus one if a recovery was found, else to the trough index plus one.
C24_PointerAdvance ==
  [][(loopRuns /\ isPeak(data, i)) =>
       LET f == findTrough(data, i) IN
         i' = resumeIndex(f.troughIdx, f.recoveryIdx) + 1]_vars

\* the recovery of dd is the first point after its trough at or above its peak
FirstRecovery(dd) ==
  LET r == dd.recoveryDate.value IN
    /\ r > dd.troughDate
    /\ At(data, r) >= dd.peakPrice
    /\ \A j \in (dd.troughDate + 1)..(r - 1) : At(data, j) < dd.peakPrice

\* C25: every emitted drawdown has its trough at or after its peak, and a
\* recovered one has its recovery strictly after the trough, at the first
\* point after the trough whose price is at least the peak price.
C25_DrawdownShape ==
  \A k \in 1..Len(drawdowns) :
    /\ drawdowns[k].troughDate >= drawdowns[k].peakDate
    /\ drawdowns[k].recovered = (drawdowns[k].recoveryDate # Null)
    /\ drawdowns[k].recovered => FirstRecovery(drawdowns[k])

\* an emitted drawdown whose trough lies after the peak and whose recovery
\* comes more than one point after the trough
C25_Witness ==
  \E k \in 1..Len(drawdowns) :
    /\ drawdowns[k].recovered
    /\ drawdowns[k].troughDate > drawdowns[k].peakDate
    /\ drawdowns[k].recoveryDate.value > drawdowns[k].troughDate + 1


\* ------------------------------------------------------------------------
\* Properties of the peak test (under SpecDrawdownLong)
\* ------------------------------------------------------------------------

\* the series cut off after the lookahead window of index k
UpToWindow(d, k) == SubSeq(d, 1, Min(Len(d), k + 1 + LOOKAHEAD))

\* C26: the index under examination is accepted as a candidate peak exactly
\* when its price is at least every price among the next min(20, remaining)
\* points, and the answer is the same on the series cut off after that
\* window.
C26_PeakWindow ==
  loopRuns =>
    /\ isPeak(data, i) =
         (\A j \in 1..Min(LOOKAHEAD, Len(data) - i - 1) : At(data, i) >= At(data, i + j))
    /\ isPeak(data, i) = isPeak(UpToWindow(data, i), i)

\* index 0 was accepted and its drawdown emitted although a point beyond its
\* window of 20 is above it
C26_Witness ==
  /\ Len(data) > LOOKAHEAD + 1
  /\ \E j \in (LOOKAHEAD + 1)..(Len(data) - 1) : At(data, j) > At(data, 0)
  /\ Len(drawdowns) > 0
  /\ drawdowns[1].peakDate = 0


\* ------------------------------------------------------------------------
\* Properties of the concurrent phase of fetch-all (under Spec)
\* ------------------------------------------------------------------------

\* the order in which fetchAllPrices() looks at the settled results
ProcessingOrder == <<"vietnam", "international", "china", "russia", "india">>

\* one warning per failed market, in processing order
WarningsOf(res) ==
  LET failed == SelectSeq(ProcessingOrder, LAMBDA m : ~IsOk(res[m])) IN
    [k \in 1..Len(failed) |->
       [market |-> MarketLabel(failed[k]), error |-> res[failed[k]].error]]

\* market m settles in this step
Settles(m) == status[m] = "pending" /\ status'[m] = "done"

\* C27: while the four dependent markets run, a market that settles changes
\* nothing that belongs to another market, and the aggregate built once all
\* have settled is a function of the per-market results alone: raw quotes per
\* market, normalized quotes in the fixed order international, Vietnam,
\* China, Russia, India, and warnings in the fixed processing order,
\* whatever the order of completion.
C27_OrderIndependent ==
  [][/\ \A m \in Dependents :
          (pc = "markets" /\ Settles(m)) =>
            /\ \A n \in Markets \ {m} : result'[n] = result[n] /\ status'[n] = status[n]
            /\ \A n \in Chains \ {m} : tried'[n] = tried[n] /\ awaiting'[n] = awaiting[n]
            /\ ratesResult' = ratesResult /\ xauusdPrice' = xauusdPrice
     /\ (pc = "markets" /\ pc' = "write") =>
          /\ \A m \in Markets :
               raw'[m] = aggregateRaw([n \in Markets |-> IF n = m THEN result[m] ELSE Err("")])[m]
          /\ Len(errors') = Len(WarningsOf(result))
          /\ \A k \in 1..Len(errors') :
               /\ errors'[k].market = WarningsOf(result)[k].market
               /\ errors'[k].error = WarningsOf(result)[k].error
          /\ normalized' = normalizeToVND(raw'["international"] \o raw'["vietnam"]
                             \o raw'["china"] \o raw'["russia"] \o raw'["india"],
                             ratesResult.data)]_vars

\* Vietnam and Russia failed, the others delivered: two warnings in processing
\* order beside the quotes of the markets that succeeded
C27_Witness ==
  /\ cmd = "fetch-all" /\ pc = "exited" /\ exitCode = 0
  /\ Len(errors) = 2
  /\ errors[1].market = "Vietnam" /\ errors[2].market = "Russia"
  /\ Len(raw["china"]) > 0 /\ Len(raw["india"]) > 0
  /\ Len(normalized) > 2


\* ------------------------------------------------------------------------
\* analyze-drawdowns: main() around findDrawdowns()
\* ------------------------------------------------------------------------

\* main() up to the call of findDrawdowns(): status 1 when the data file is
\* missing; data[0].date of an empty series raises a TypeError, which
\* main().catch(console.error) prints, and the process ends with status 0
AnalyzeLoad ==
  /\ cmd = "analyze-drawdowns" /\ scan = "main"
  /\ IF files["data/history-19y.json"] = "absent"
       THEN scan' = "exited" /\ exitCode' = 1
       ELSE IF Len(data) = 0
         THEN scan' = "threw" /\ exitCode' = 0
         ELSE scan' = "loop" /\ UNCHANGED exitCode
  /\ UNCHANGED <<cmd, pc, twelveKey, goldApiKey, ratesStatus, ratesResult, status,
                 awaiting, tried, result, xauusdPrice, raw, errors, normalized,
                 vietnamPremium, latestJson, snapshots, today, historicalRateEnv, existing>>
  /\ UNCHANGED <<fnVars, buildStep, buildExit, files, ddInputs, i, drawdowns, visited>>

\* main() after findDrawdowns() has returned: with no event it returns at
\* once, else it prints the tables and writes data/drawdowns.json; status 0
AnalyzeReport ==
  /\ cmd = "analyze-drawdowns" /\ scan = "returned" /\ exitCode = -1
  /\ exitCode' = 0
  /\ IF Len(drawdowns) = 0 THEN scan' = "exited" /\ UNCHANGED files
     ELSE \E written \in BOOLEAN :
            IF written
              THEN /\ files' = [f \in DOMAIN files \cup {"data/drawdowns.json"} |->
                                 IF f = "data/drawdowns.json" THEN "new" ELSE files[f]]
                   /\ scan' = "exited"
              ELSE UNCHANGED files /\ scan' = "threw"
  /\ UNCHANGED <<cmd, pc, twelveKey, goldApiKey, ratesStatus, ratesResult, status,
                 awaiting, tried, result, xauusdPrice, raw, errors, normalized,
                 vietnamPremium, latestJson, snapshots, today, historicalRateEnv, existing>>
  /\ UNCHANGED <<fnVars, buildStep, buildExit, ddInputs, i, drawdowns, visited>>

\* the program starts with the series file present or not
AnalyzeInit ==
  /\ AcqIdle /\ FnIdle
  /\ buildStep = 0 /\ buildExit = -1
  /\ files \in [{"data/history-19y.json"} -> {"absent", "old"}]
  /\ data \in SeriesOver(LevelPrices)
  /\ minDrawdownPct \in MinPcts
  /\ i = 0
  /\ drawdowns = <<>>
  /\ scan = "main"
  /\ visited = <<>>

AnalyzeNext ==
  \/ AnalyzeLoad
  \/ ScanRejected
  \/ ScanDiscarded
  \/ ScanEmitted
  \/ ScanReturn
  \/ AnalyzeReport

SpecAnalyze == AnalyzeInit /\ [][AnalyzeNext]_vars

\* C28: a run of analyze-drawdowns that is given an existing series file with
\* zero points does not end with status 0.
C28_EmptySeriesFailsLoudly ==
  (/\ cmd = "analyze-drawdowns"
   /\ files["data/history-19y.json"] # "absent"
   /\ Len(data) = 0
   /\ exitCode # -1)
    => exitCode # 0


\* ------------------------------------------------------------------------
\* The other writers of the snapshot store: update-vietnam-daily and
\* backfill-vietnam
\* ------------------------------------------------------------------------

\* most points of a Vietnam history
MaxVnPoints == 2

\* fetchVietnamHistory(): chart points merged by timestamp, mapped to their
\* Vietnam date and sorted by date; two timestamps of one day keep two points
VnHistoryOutcomes ==
  {Thrown("TypeError: fetch failed")}
    \cup {Ok([k \in 1..Len(ds) |->
                [date |-> ds[k], sellPrice |-> 1931625000, buyPrice |-> 1929000000]]) :
            ds \in {s \in UNION {[1..n -> Dates] : n \in 1..MaxVnPoints} :
                      \A k \in 1..(Len(s) - 1) : s[k] <= s[k + 1]}}

\* twelvedata fetchHistory(): the trading days it has a close for
IntlHistoryOutcomes ==
  {Err("TWELVEDATA_API_KEY not set")}
    \cup {Ok([date \in D |-> [usdPerOunce |-> TROY_OUNCE_NUM,
                              usdPerGram |-> PerOunceToGram(TROY_OUNCE_NUM)]]) :
            D \in SUBSET Dates}

RECURSIVE nearbyFrom(_, _, _)
\* findNearbyDate(): the day before, then the day after, up to 3 days away
nearbyFrom(D, d, offset) ==
  IF offset > 3 THEN Null
  ELSE IF (d - offset) \in D THEN Num(d - offset)
  ELSE IF (d + offset) \in D THEN Num(d + offset)
  ELSE nearbyFrom(D, d, offset + 1)

\* buildSnapshot(vn, intl, exchangeRate) of backfill-vietnam, and the
\* snapshot update-vietnam-daily builds in main()
backfillSnapshot(vn, intl, exchangeRate) ==
  LET intlVndPerTael == TimesTael(intl.usdPerGram * exchangeRate) IN
    [date |-> vn.date,
     sjcMieng |-> [buy |-> vn.buyPrice, sell |-> vn.sellPrice],
     international |-> [usdPerOunce |-> intl.usdPerOunce, vndPerTael |-> intlVndPerTael],
     exchangeRate |-> exchangeRate,
     premium |-> Percent(vn.sellPrice - intlVndPerTael, intlVndPerTael)]

\* the snapshots built from the Vietnam points that have an international
\* price on their date or on a nearby one
backfillBuilt(vnData, intlByDate, exchangeRate) ==
  LET matchOf(d) == IF d \in DOMAIN intlByDate THEN Num(d)
                    ELSE nearbyFrom(DOMAIN intlByDate, d, 1)
      matched == SelectSeq(vnData, LAMBDA v : matchOf(v.date) # Null)
  IN [k \in 1..Len(matched) |->
        backfillSnapshot(matched[k], intlByDate[matchOf(matched[k].date).value],
                         exchangeRate)]

storeFrame == <<cmd, twelveKey, goldApiKey, ratesStatus, ratesResult, status, awaiting,
                tried, xauusdPrice, raw, errors, normalized, vietnamPremium,
                latestJson, today, historicalRateEnv>>

\* vnResult / intlResult of the two programs are kept in result

\* backfill-vietnam main(), fetchVietnamHistory() has settled: status 1 when
\* it failed, else fetchTwelveDataHistory() is awaited
BackfillVietnamReply ==
  /\ cmd = "backfill-vietnam" /\ pc = "start"
  /\ \E v \in VnHistoryOutcomes :
       /\ result' = [result EXCEPT !["vietnam"] = catchAtBoundary(v)]
       /\ IF IsOk(v) THEN pc' = "international" /\ UNCHANGED exitCode
                     ELSE pc' = "exited" /\ exitCode' = 1
  /\ UNCHANGED <<storeFrame, snapshots, existing, ddVars, fnVars, buildVars>>

\* fetchTwelveDataHistory() has settled: status 1 when it failed, else the
\* snapshots are built and loadExisting() is awaited
BackfillInternationalReply ==
  /\ cmd = "backfill-vietnam" /\ pc = "international"
  /\ \E h \in IntlHistoryOutcomes :
       /\ result' = [result EXCEPT !["international"] = h]
       /\ IF IsOk(h) THEN pc' = "load" /\ UNCHANGED exitCode
                     ELSE pc' = "exited" /\ exitCode' = 1
  /\ UNCHANGED <<storeFrame, snapshots, existing, ddVars, fnVars, buildVars>>

\* loadExisting() has read the store: the built snapshots whose date the
\* copy does not hold are pushed, the copy is sorted, Bun.write() is awaited
BackfillLoad ==
  /\ cmd = "backfill-vietnam" /\ pc = "load"
  /\ LET existingDates == {snapshots[k].date : k \in 1..Len(snapshots)}
         built == backfillBuilt(result["vietnam"].data, result["international"].data,
                                historicalRate(historicalRateEnv))
         added == SelectSeq(built, LAMBDA s : s.date \notin existingDates)
     IN existing' = sortByDate(snapshots \o added)
  /\ pc' = "write"
  /\ UNCHANGED <<storeFrame, result, snapshots, exitCode, ddVars, fnVars, buildVars>>

\* update-vietnam-daily main(), loadExisting() has read the store: nothing to
\* do when the copy holds today, else VNAppMob's fetchCurrent() is awaited
UpdateVietnamLoad ==
  /\ cmd = "update-vietnam-daily" /\ pc = "start"
  /\ existing' = snapshots
  /\ IF \E k \in 1..Len(snapshots) : snapshots[k].date = today
       THEN pc' = "exited" /\ exitCode' = 0
       ELSE pc' = "vietnam" /\ UNCHANGED exitCode
  /\ UNCHANGED <<storeFrame, result, snapshots, ddVars, fnVars, buildVars>>

\* fetchCurrent() has settled: status 1 when it failed, else
\* fetchTwelveDataHistory(5) is awaited
UpdateVietnamReply ==
  /\ cmd = "update-vietnam-daily" /\ pc = "vietnam"
  /\ \E v \in {Err("HTTP 500"),
                 Ok([sellPrice |-> 1931625000, buyPrice |-> 1929000000])} :
       /\ result' = [result EXCEPT !["vietnam"] = v]
       /\ IF IsOk(v) THEN pc' = "international" /\ UNCHANGED exitCode
                     ELSE pc' = "exited" /\ exitCode' = 1
  /\ UNCHANGED <<storeFrame, snapshots, existing, ddVars, fnVars, buildVars>>

\* fetchTwelveDataHistory(5) has settled: status 1 when it failed or has no
\* point, else today's snapshot is built from its last point and pushed onto
\* the copy loaded at the start, the copy is sorted and Bun.write() is awaited
UpdateInternationalReply ==
  /\ cmd = "update-vietnam-daily" /\ pc = "international"
  /\ \E h \in IntlHistoryOutcomes :
       /\ result' = [result EXCEPT !["international"] = h]
       /\ IF ~IsOk(h) \/ DOMAIN h.data = {}
            THEN pc' = "exited" /\ exitCode' = 1 /\ UNCHANGED existing
            ELSE LET latest == CHOOSE d \in DOMAIN h.data :
                                 \A e \in DOMAIN h.data : e <= d
                     vnPrice == result["vietnam"].data
                     snapshot == backfillSnapshot(
                                   [date |-> today, sellPrice |-> vnPrice.sellPrice,
                                    buyPrice |-> vnPrice.buyPrice],
                                   h.data[latest], historicalRate(historicalRateEnv))
                 IN /\ existing' = sortByDate(Append(existing, snapshot))
                    /\ pc' = "write" /\ UNCHANGED exitCode
  /\ UNCHANGED <<storeFrame, snapshots, ddVars, fnVars, buildVars>>

\* one of the three programs that write the store starts on a store left by
\* earlier runs
StoreInit ==
  /\ cmd \in {"collect-daily", "update-vietnam-daily", "backfill-vietnam"}
  /\ pc = "start"
  /\ twelveKey \in (IF cmd = "collect-daily" THEN BOOLEAN ELSE {FALSE})
  /\ goldApiKey = FALSE
  /\ ratesStatus = "idle" /\ ratesResult = Undefined
  /\ status = [m \in Markets |-> "idle"]
  /\ awaiting = [m \in Chains |-> "none"]
  /\ tried = [m \in Chains |-> <<>>]
  /\ result = [m \in Markets |-> Undefined]
  /\ xauusdPrice = 0
  /\ raw = [m \in Markets |-> <<>>]
  /\ errors = <<>> /\ normalized = <<>> /\ vietnamPremium = Undefined
  /\ exitCode = -1 /\ latestJson = Undefined
  /\ snapshots \in InitialStores
  /\ today \in Dates
  /\ historicalRateEnv \in {Undefined, Num(26000)}
  /\ existing = <<>>
  /\ DdIdle /\ FnIdle /\ BuildIdle

StoreNext ==
  \/ CollectDailyStart
  \/ IntlTwelveDataReply
  \/ IntlFreeGoldReply
  \/ VietnamReply
  \/ CollectDailyFinish
  \/ StoreWrite
  \/ UpdateVietnamLoad
  \/ UpdateVietnamReply
  \/ UpdateInternationalReply
  \/ BackfillVietnamReply
  \/ BackfillInternationalReply
  \/ BackfillLoad

\* one run of one of the three programs, with no other writer of the store
\* while it runs
SpecStore == StoreInit /\ [][StoreNext]_vars

OnePerDate(store) ==
  \A j, k \in 1..Len(store) : store[j].date = store[k].date => j = k

SortedByDate(store) ==
  \A k \in 1..(Len(store) - 1) : store[k].date <= store[k + 1].date

\* C29: every write of the store by collect-daily, update-vietnam-daily or
\* backfill-vietnam, starting from a store with at most one snapshot per
\* date, leaves at most one snapshot per date, sorted ascending by date, and
\* a write by backfill-vietnam keeps every snapshot the store held.
C29_StoreInvariant ==
  [][(/\ OnePerDate(snapshots)
      /\ pc = "write" /\ pc' # "write" /\ snapshots' = jsonSnapshots(existing)) =>
       /\ OnePerDate(snapshots')
       /\ SortedByDate(snapshots')
       /\ cmd = "backfill-vietnam" =>
            \A k \in 1..Len(snapshots) :
              \E j \in 1..Len(snapshots') : snapshots'[j] = snapshots[k]]_vars


\* ------------------------------------------------------------------------
\* Properties of the coverage report (under SpecLibrary)
\* ------------------------------------------------------------------------

\* the report assessCoverage() has returned
coverageReport == ret.value

\* the four news counts of the data set are all at least 3
NewsSufficient(d) ==
  \A n \in {Len(d.policyStatements), Len(d.geopoliticalEvents),
            Len(d.countryActions), Len(d.dollarAndYieldDrivers)} : n >= 3

\* C30: the report is healthy exactly when no factor lacks its latest value,
\* no factor is listed as stale and each of the four news categories holds at
\* least 3 items; every factor without a latest value is named in
\* missingFactors.
C30_CoverageHealthy ==
  (call.fn = "assessCoverage" /\ ret # Undefined) =>
    LET d == call.data
        named == {coverageReport.missingFactors[k] :
                    k \in 1..Len(coverageReport.missingFactors)}
    IN /\ coverageReport.healthy =
            (/\ \A k \in 1..Len(d.factors) : d.factors[k].latest # Null
             /\ Len(coverageReport.staleFactors) = 0
             /\ NewsSufficient(d))
       /\ \A k \in 1..Len(d.factors) :
            d.factors[k].latest = Null => d.factors[k].name \in named
       /\ \A k \in 1..Len(d.factors) :
            (/\ d.factors[k].latest # Null
             /\ d.factors[k].latest.date # NaN
             /\ d.factors[k].latest.date.value > STALE_FACTOR_DAYS)
              => Len(coverageReport.staleFactors) > 0

\* a healthy report although a source failed: two factors, one of them dated
\* in the future and one at the staleness limit, and exactly 3 items in every
\* category
C30_Witness ==
  /\ call.fn = "assessCoverage" /\ ret # Undefined
  /\ coverageReport.healthy
  /\ Len(call.data.factors) = 2
  /\ call.data.factors[1].latest = [date |-> Num(-1)]
  /\ call.data.factors[2].latest = [date |-> Num(STALE_FACTOR_DAYS)]
  /\ Len(call.data.policyStatements) = 3 /\ Len(call.data.countryActions) = 3
  /\ Len(coverageReport.sourceFailures) = 1

============================================================================
